---- MODULE Spec2Model ----
(***************************************************************************)
(* LAS -> OSDU record conversion core of kaggle-competition-agent:         *)
(* utils/models.py, utils/las_loader.py, utils/record_mapper.py and        *)
(* utils/service.py; the agent tools of tools/las_converter_tool.py; the   *)
(* agent runs of lastowellboreAgent.py, searchAgent.py, mergeAgent.py and  *)
(* main_workflow.py.                                                       *)
(*                                                                         *)
(* Representation.  A Python str that the code inspects character by       *)
(* character (strip, truthiness, urllib.parse.quote) is a sequence of      *)
(* one-character strings; Str turns it into text where the code formats it *)
(* into an f-string.  A value that may be None is None == <<>> or          *)
(* Some(v) == <<v>>.  A call either returns (Ok) or raises (Raise).        *)
(***************************************************************************)
EXTENDS Integers, Sequences, FiniteSets, TLC

VARIABLES pc, op, args, ret, pinned, calls, mappers, heap, cache, files, run

vars == <<pc, op, args, ret, pinned, calls, mappers, heap, cache, files, run>>

\* Longest curve section of a parsed document.
MaxCurves == 2

-----------------------------------------------------------------------------
(* Python values *)

None == <<>>

Some(v) == <<v>>

Val(o) == o[1]

Ok(v) == [ok |-> TRUE, val |-> v]

Raise(e, m) == [ok |-> FALSE, exc |-> e, msg |-> m]

RECURSIVE Str(_)
\* str of a character sequence, as interpolated by an f-string
Str(cs) == IF cs = <<>> THEN "" ELSE Head(cs) \o Str(Tail(cs))

\* bool(s) for a str
Truthy(s) == Len(s) > 0

IsSpace(c) == c = " "

RECURSIVE LStrip(_)
LStrip(s) == IF s # <<>> /\ IsSpace(Head(s)) THEN LStrip(Tail(s)) ELSE s

RECURSIVE RStrip(_)
RStrip(s) ==
    IF s # <<>> /\ IsSpace(s[Len(s)]) THEN RStrip(SubSeq(s, 1, Len(s) - 1)) ELSE s

\* str.strip()
Strip(s) == RStrip(LStrip(s))

\* str.replace(old, new) for one-character old and new
Replace(s, old, new) == [i \in 1..Len(s) |-> IF s[i] = old THEN new ELSE s[i]]

\* characters urllib.parse.quote never encodes (letters, digits, "_.-~")
Unreserved == {"A", "B", "D", "E", "G", "K", "M", "P", "R", "T",
               "0", "1", "2", "4", "_", ".", "-", "~"}

\* "%XX" of one reserved character
PercentEncode(c) ==
    CASE c = " " -> <<"%", "2", "0">>
      [] c = "/" -> <<"%", "2", "F">>
      [] c = "%" -> <<"%", "2", "5">>

RECURSIVE Quote(_)
\* urllib.parse.quote(s, safe="")
Quote(s) ==
    IF s = <<>> THEN <<>>
    ELSE (IF Head(s) \in Unreserved THEN <<Head(s)>> ELSE PercentEncode(Head(s)))
         \o Quote(Tail(s))

-----------------------------------------------------------------------------
(* utils/models.py *)

ConfigKeys == {"data_default_viewers", "data_default_owners", "legal_tags",
               "legal_relevant_data_countries", "legal_status", "data_partition_id"}

\* dict.get(key): the value, or None when the key is absent
Get(d, k) == IF k \in DOMAIN d THEN Some(d[k]) ELSE None

\* Mutant: an absent viewers key is held as an empty list.
Configuration_empty_default(config_data) ==
    [data_default_viewers          |-> IF "data_default_viewers" \in DOMAIN config_data
                                       THEN Get(config_data, "data_default_viewers")
                                       ELSE Some(<<>>),
     data_default_owners           |-> Get(config_data, "data_default_owners"),
     legal_tags                    |-> Get(config_data, "legal_tags"),
     legal_relevant_data_countries |-> Get(config_data, "legal_relevant_data_countries"),
     legal_status                  |-> Get(config_data, "legal_status"),
     data_partition_id             |-> Get(config_data, "data_partition_id")]

\* Configuration.__init__: six dict.get calls, no validation
Configuration(config_data) ==
    [data_default_viewers          |-> Get(config_data, "data_default_viewers"),
     data_default_owners           |-> Get(config_data, "data_default_owners"),
     legal_tags                    |-> Get(config_data, "legal_tags"),
     legal_relevant_data_countries |-> Get(config_data, "legal_relevant_data_countries"),
     legal_status                  |-> Get(config_data, "legal_status"),
     data_partition_id             |-> Get(config_data, "data_partition_id")]

\* Record dataclass; id defaults to None
Record(kind, acl, legal, data, id) ==
    [kind |-> kind, acl |-> acl, legal |-> legal, data |-> data, id |-> id]

-----------------------------------------------------------------------------
(* utils/record_mapper.py: AttributeBuilder *)

MSG_ACL == "Config missing 'data_default_viewers' or 'data_default_owners'"

MSG_LEGAL == "Config missing 'legal_tags', 'legal_relevant_data_countries', or 'legal_status'"

MSG_PARTITION == "Config missing 'data_partition_id'"

MSG_PARTITION_CURVES == "Config missing 'data_partition_id' for building curves"

MSG_WELLBORE_ID == "Wellbore ID is required"

MSG_REF_CURVE == "Failed to extract reference curve ID from LAS file."

MSG_NO_WELL == "'SectionItems' object has no attribute 'WELL'"

\* Mutant: "if not viewers or not owners", which also rejects an empty list.
build_acl_falsy(config) ==
    IF \/ config.data_default_viewers = None
       \/ config.data_default_owners = None
       \/ Val(config.data_default_viewers) = <<>>
       \/ Val(config.data_default_owners) = <<>>
    THEN Raise("ValueError", MSG_ACL)
    ELSE Ok([viewers |-> Val(config.data_default_viewers),
             owners  |-> Val(config.data_default_owners)])

build_acl(config) ==
    IF config.data_default_viewers = None \/ config.data_default_owners = None
    THEN Raise("ValueError", MSG_ACL)
    ELSE Ok([viewers |-> Val(config.data_default_viewers),
             owners  |-> Val(config.data_default_owners)])

\* Mutant: legal tags and countries stored under each other's key.
build_legal_swapped(config) ==
    IF \/ config.legal_tags = None
       \/ config.legal_relevant_data_countries = None
       \/ config.legal_status = None
    THEN Raise("ValueError", MSG_LEGAL)
    ELSE Ok([legaltags                  |-> Val(config.legal_relevant_data_countries),
             otherRelevantDataCountries |-> Val(config.legal_tags),
             status                     |-> Val(config.legal_status)])

build_legal(config) ==
    IF \/ config.legal_tags = None
       \/ config.legal_relevant_data_countries = None
       \/ config.legal_status = None
    THEN Raise("ValueError", MSG_LEGAL)
    ELSE Ok([legaltags                  |-> Val(config.legal_tags),
             otherRelevantDataCountries |-> Val(config.legal_relevant_data_countries),
             status                     |-> Val(config.legal_status)])

\* Mutant: the value is tested without being stripped.
get_uwi_nostrip(las) ==
    IF las.well.UWI = None THEN None
    ELSE LET uwi == Val(las.well.UWI)
         IN  IF Truthy(uwi) THEN Some(uwi) ELSE None

\* las.well.UWI.value, None on AttributeError (item absent) or when blank
get_uwi(las) ==
    IF las.well.UWI = None THEN None
    ELSE LET uwi == Val(las.well.UWI)
         IN  IF Truthy(uwi) /\ Truthy(Strip(uwi)) THEN Some(uwi) ELSE None

\* Mutant: the partition id is required before the UWI is looked at.
build_name_aliases_eager(uwi, config) ==
    IF config.data_partition_id = None
    THEN Raise("ValueError", MSG_PARTITION)
    ELSE IF uwi # None /\ Truthy(Val(uwi))
    THEN Ok(<<[AliasName       |-> Val(uwi),
               AliasNameTypeID |-> Val(config.data_partition_id)
                   \o ":reference-data--AliasNameType:UniqueIdentifier:"]>>)
    ELSE Ok(<<>>)

\* Mutant: no check of the partition id; the f-string formats None.
build_name_aliases_unchecked(uwi, config) ==
    IF uwi # None /\ Truthy(Val(uwi))
    THEN Ok(<<[AliasName       |-> Val(uwi),
               AliasNameTypeID |->
                   (IF config.data_partition_id = None THEN "None"
                    ELSE Val(config.data_partition_id))
                   \o ":reference-data--AliasNameType:UniqueIdentifier:"]>>)
    ELSE Ok(<<>>)

build_name_aliases(uwi, config) ==
    IF uwi # None /\ Truthy(Val(uwi))
    THEN IF config.data_partition_id = None
         THEN Raise("ValueError", MSG_PARTITION)
         ELSE Ok(<<[AliasName       |-> Val(uwi),
                    AliasNameTypeID |-> Val(config.data_partition_id)
                        \o ":reference-data--AliasNameType:UniqueIdentifier:"]>>)
    ELSE Ok(<<>>)

\* Mutant: the wellbore data block refuses a document without curves.
build_wellbore_data_needs_curves(las, config) ==
    IF las.well.WELL = None
    THEN Raise("AttributeError", MSG_NO_WELL)
    ELSE IF las.curves = <<>>
    THEN Raise("ValueError", MSG_REF_CURVE)
    ELSE LET name_aliases == build_name_aliases(get_uwi(las), config)
         IN  IF ~name_aliases.ok THEN name_aliases
             ELSE Ok([FacilityName |-> Val(las.well.WELL),
                      NameAliases  |-> name_aliases.val])

build_wellbore_data(las, config) ==
    IF las.well.WELL = None
    THEN Raise("AttributeError", MSG_NO_WELL)
    ELSE LET well_name    == Val(las.well.WELL)
             uwi          == get_uwi(las)
             name_aliases == build_name_aliases(uwi, config)
         IN  IF ~name_aliases.ok THEN name_aliases
             ELSE Ok([FacilityName |-> well_name, NameAliases |-> name_aliases.val])

UNITLESS == <<"U", "N", "I", "T", "L", "E", "S", "S">>

\* Mutant: an empty unit is left empty.
EncodedUnit_blank(curve_unit) == Replace(Quote(curve_unit), " ", "-")

\* the unit segment of a CurveUnit: quote, then replace(" ", "-"), "" -> UNITLESS
EncodedUnit(curve_unit) ==
    LET unit == Replace(Quote(curve_unit), " ", "-")
    IN  IF unit = <<>> THEN UNITLESS ELSE unit

CurveUnit(data_partition_id, unit) ==
    data_partition_id \o ":reference-data--UnitOfMeasure:" \o Str(unit) \o ":"

\* Mutant: the entries are produced in reverse document order.
build_curves_reversed(las, data_partition_id) ==
    IF data_partition_id = None
    THEN Raise("ValueError", MSG_PARTITION)
    ELSE Ok([i \in 1..Len(las.curves) |->
               LET curve == las.curves[Len(las.curves) + 1 - i]
               IN  [CurveID   |-> curve.mnemonic,
                    CurveUnit |-> CurveUnit(Val(data_partition_id),
                                            EncodedUnit(curve.unit)),
                    Mnemonic  |-> curve.mnemonic]])

build_curves(las, data_partition_id) ==
    IF data_partition_id = None
    THEN Raise("ValueError", MSG_PARTITION)
    ELSE Ok([i \in 1..Len(las.curves) |->
               [CurveID   |-> las.curves[i].mnemonic,
                CurveUnit |-> CurveUnit(Val(data_partition_id),
                                        EncodedUnit(las.curves[i].unit)),
                Mnemonic  |-> las.curves[i].mnemonic]])

\* Mutant: the last curve is taken as the reference curve.
RefCurveIndex_last(las) == Len(las.curves)

\* index of the curve taken as the reference curve: las.curves[0]
RefCurveIndex(las) == 1

WellboreID(data_partition_id, wellbore_id) ==
    data_partition_id \o ":master-data--Wellbore:" \o Str(wellbore_id) \o ":"

\* "if not wellbore_id": the guard of build_well_log_data
WellboreIdMissing(wellbore_id) == ~Truthy(wellbore_id)

build_well_log_data(las, config, wellbore_id) ==
    IF WellboreIdMissing(wellbore_id)
    THEN Raise("ValueError", MSG_WELLBORE_ID)
    ELSE IF ~(Len(las.curves) > 0 /\ Truthy(las.curves[RefCurveIndex(las)].mnemonic))
    THEN Raise("ValueError", MSG_REF_CURVE)
    ELSE IF config.data_partition_id = None
    THEN Raise("ValueError", MSG_PARTITION_CURVES)
    ELSE LET ref_curve_id == las.curves[RefCurveIndex(las)].mnemonic
             curves       == build_curves(las, config.data_partition_id)
         IN  IF ~curves.ok THEN curves
             ELSE Ok([ReferenceCurveID |-> ref_curve_id,
                      Curves           |-> curves.val,
                      WellboreID       |-> WellboreID(Val(config.data_partition_id),
                                                      wellbore_id)])

-----------------------------------------------------------------------------
(* utils/record_mapper.py: LasToRecordMapper *)

KIND_WELLBORE == "osdu:wks:master-data--Wellbore:1.0.0"

KIND_WELLLOG == "osdu:wks:work-product-component--WellLog:1.0.0"

\* Mutant: the legal block is built before the ACL block.
map_to_wellbore_record_legal_first(las, config) ==
    LET acl   == build_acl(config)
        legal == build_legal(config)
        data  == build_wellbore_data(las, config)
    IN  IF ~legal.ok THEN legal
        ELSE IF ~acl.ok THEN acl
        ELSE IF ~data.ok THEN data
        ELSE Ok(Record(KIND_WELLBORE, acl.val, legal.val, data.val, None))

map_to_wellbore_record(las, config) ==
    LET acl   == build_acl(config)
        legal == build_legal(config)
        data  == build_wellbore_data(las, config)
    IN  IF ~acl.ok THEN acl
        ELSE IF ~legal.ok THEN legal
        ELSE IF ~data.ok THEN data
        ELSE Ok(Record(KIND_WELLBORE, acl.val, legal.val, data.val, None))

\* the derived id of the well log: f"{wellbore_id}-log"
LogId(wellbore_id) == Str(wellbore_id) \o "-log"

\* Mutant: the well log record gets the viewers as owners and the owners as
\* viewers.
map_to_well_log_record_swapped_acl(las, config, wellbore_id) ==
    LET acl   == build_acl(config)
        legal == build_legal(config)
        data  == build_well_log_data(las, config, wellbore_id)
    IN  IF ~acl.ok THEN acl
        ELSE IF ~legal.ok THEN legal
        ELSE IF ~data.ok THEN data
        ELSE Ok(Record(KIND_WELLLOG,
                       [viewers |-> acl.val.owners, owners |-> acl.val.viewers],
                       legal.val, data.val, Some(LogId(wellbore_id))))

map_to_well_log_record(las, config, wellbore_id) ==
    LET acl   == build_acl(config)
        legal == build_legal(config)
        data  == build_well_log_data(las, config, wellbore_id)
    IN  IF ~acl.ok THEN acl
        ELSE IF ~legal.ok THEN legal
        ELSE IF ~data.ok THEN data
        ELSE Ok(Record(KIND_WELLLOG, acl.val, legal.val, data.val,
                       Some(LogId(wellbore_id))))

-----------------------------------------------------------------------------
(* utils/las_loader.py *)

\* LocalFileLoader.load
load(content) ==
    IF content = None THEN Raise("FileNotFoundError", "No content provided.")
    ELSE Ok(Val(content))

\* lasio.read on a text: the parsed document, or the parser's exception
lasio_read(text) ==
    IF text.kind = "las" THEN Ok(text.doc) ELSE Raise(text.exc, text.msg)

\* LasParser.validate_las_file: reads las.well.WELL.value; a blank name is only
\* logged.  Returns whether the warning was logged.
validate_las_file(las) ==
    IF las.well.WELL = None
    THEN Raise("AttributeError", MSG_NO_WELL)
    ELSE LET well_name == Val(las.well.WELL)
         IN  Ok(~Truthy(well_name) \/ well_name = <<" ">>)

\* Mutant: a text lasio cannot read is reported as a FileValidationError.
load_las_file_validation_error(content) ==
    LET file_content_str == load(content)
    IN  IF ~file_content_str.ok THEN file_content_str
        ELSE LET las == lasio_read(file_content_str.val)
             IN  IF ~las.ok THEN Raise("FileValidationError", las.msg)
                 ELSE LET v == validate_las_file(las.val)
                      IN  IF ~v.ok THEN v ELSE las

\* LasParser.load_las_file
load_las_file(content) ==
    LET file_content_str == load(content)
    IN  IF ~file_content_str.ok THEN file_content_str
        ELSE LET las == lasio_read(file_content_str.val)
             IN  IF ~las.ok THEN las
                 ELSE LET v == validate_las_file(las.val)
                      IN  IF ~v.ok THEN v ELSE las

-----------------------------------------------------------------------------
(* utils/service.py *)

\* except (ValueError, TypeError, FileValidationError): raise e
\* except Exception: raise Exception(f"An unexpected error occurred: {e}")
\* Mutant: no generic wrapper, every exception is re-raised as it is.
Handle_reraise(e) == e

\* Mutant: every exception is replaced by the generic one.
Handle_wrap_all(e) == Raise("Exception", "An unexpected error occurred: " \o e.msg)

Handle(e) ==
    IF e.exc \in {"ValueError", "TypeError", "FileValidationError"} THEN e
    ELSE Raise("Exception", "An unexpected error occurred: " \o e.msg)

\* Mutant: when the well log mapping fails, the wellbore record already built
\* is returned alone.
convert_try_partial(las_content, wellbore_id, config_content) ==
    LET config   == Configuration(config_content)
        las_data == load_las_file(las_content)
    IN  IF ~las_data.ok THEN las_data
        ELSE LET wb == map_to_wellbore_record(las_data.val, config)
             IN  IF ~wb.ok THEN wb
                 ELSE LET wellbore_record == [wb.val EXCEPT !.id = Some(wellbore_id)]
                          wl == map_to_well_log_record(las_data.val, config, wellbore_id)
                      IN  IF ~wl.ok THEN Ok([wellbore_record |-> wellbore_record])
                          ELSE Ok([wellbore_record |-> wellbore_record,
                                   welllog_record  |-> wl.val])

\* the try block: the records, or the first exception raised in it
convert_try(las_content, wellbore_id, config_content) ==
    LET config   == Configuration(config_content)
        las_data == load_las_file(las_content)
    IN  IF ~las_data.ok THEN las_data
        ELSE LET wb == map_to_wellbore_record(las_data.val, config)
             IN  IF ~wb.ok THEN wb
                 ELSE LET wellbore_record == [wb.val EXCEPT !.id = Some(wellbore_id)]
                          wl == map_to_well_log_record(las_data.val, config, wellbore_id)
                      IN  IF ~wl.ok THEN wl
                          ELSE Ok([wellbore_record |-> wellbore_record,
                                   welllog_record  |-> wl.val])

\* Mutant: the records of the previous successful conversion are kept and
\* returned again for the same wellbore id.
convert_memo(las_content, wellbore_id, config_content) ==
    IF op = "convert" /\ ret.ok /\ args.wellbore_id = wellbore_id THEN ret
    ELSE LET r == convert_try(las_content, wellbore_id, config_content)
         IN  IF r.ok THEN r ELSE Handle(r)

convert_las_to_osdu_records(las_content, wellbore_id, config_content) ==
    LET r == convert_try(las_content, wellbore_id, config_content)
    IN  IF r.ok THEN r ELSE Handle(r)

-----------------------------------------------------------------------------
(* main_workflow.py: run_assembly_line.  A step is a call of an agent      *)
(* function; the call binds its arguments to the function's parameters     *)
(* before the function runs.                                               *)

\* positional parameters of lastowellboreAgent.process_las_file,
\* searchAgent.main and mergeAgent.main
PROCESS_LAS_FILE_PARAMS == 3

SEARCH_MAIN_PARAMS == 1

MERGE_MAIN_PARAMS == 3

\* positional arguments run_assembly_line passes to them
INGEST_CALL_ARGS == 4

SEARCH_CALL_ARGS == 2

MERGE_CALL_ARGS == 3

\* a call with as many positional arguments as parameters binds; any other
\* raises TypeError before the function starts
Binds(nargs, nparams) == nargs = nparams

\* what process_las_file returns: nothing, or the well-log file name
IngestOutcomes == {None, Some("well-5555-welllog.json")}

\* searchAgent.main returns, with or without childLogs.json written, or raises
SearchOutcomes == {"saved", "not_saved", "PermissionError"}

\* mergeAgent.main returns or raises
MergeOutcomes == {"returned", "FileNotFoundError", "PermissionError", "Exception"}

\* run_assembly_line: the steps that started, in order, and how the function
\* ended
run_assembly_line(ingest, search, merge) ==
    IF ~Binds(INGEST_CALL_ARGS, PROCESS_LAS_FILE_PARAMS)
    THEN [steps   |-> <<>>,
          outcome |-> Raise("TypeError",
                            "process_las_file() takes 3 positional arguments but 4 were given")]
    ELSE IF ingest = None \/ Val(ingest) = ""
    THEN [steps |-> <<"ingest">>, outcome |-> Ok(None)]
    ELSE IF ~Binds(SEARCH_CALL_ARGS, SEARCH_MAIN_PARAMS)
    THEN [steps   |-> <<"ingest">>,
          outcome |-> Raise("TypeError",
                            "main() takes 1 positional argument but 2 were given")]
    ELSE IF search \notin {"saved", "not_saved"}
    THEN [steps |-> <<"ingest", "search">>, outcome |-> Raise(search, "")]
    ELSE IF ~Binds(MERGE_CALL_ARGS, MERGE_MAIN_PARAMS)
    THEN [steps |-> <<"ingest", "search">>, outcome |-> Ok(None)]
    ELSE [steps |-> <<"ingest", "search", "merge">>, outcome |-> Ok(None)]

-----------------------------------------------------------------------------
(* Inputs *)

WellNames == {None, Some(<<>>), Some(<<"W", "-", "A">>)}

UwiValues == {None, Some(<<>>), Some(<<" ">>), Some(<<"4", "2", "-", "0", "1">>)}

CurveKinds ==
    {[mnemonic |-> <<"D", "E", "P", "T">>, unit |-> <<"M">>],
     [mnemonic |-> <<"G", "R">>,           unit |-> <<>>],
     [mnemonic |-> <<>>,                   unit |-> <<"K", " ", "M">>]}

CurveLists == UNION {[1..n -> CurveKinds] : n \in 0..MaxCurves}

\* what lasio.read can return: a well section with or without WELL and UWI
\* items, and an ordered curve section
Docs ==
    {[well |-> [WELL |-> w, UWI |-> u], curves |-> c] :
        w \in WellNames, u \in UwiValues, c \in CurveLists}

LasText(d) == Some([kind |-> "las", doc |-> d])

BadTexts ==
    {Some([kind |-> "bad", exc |-> "LASHeaderError",
           msg |-> "~V section not found"]),
     Some([kind |-> "bad", exc |-> "ValueError",
           msg |-> "Cannot reshape ~A data size (5,) into 2 columns"])}

LasContents == {None} \cup BadTexts \cup {LasText(d) : d \in Docs}

\* the documents the parser hands to the record mapper
LoadedDocs == {d \in Docs : load_las_file(LasText(d)).ok}

WellboreIds == {<<>>, <<" ">>, <<"w", "b", "-", "1">>}

MkConfig(v, o, t, c, s, p) ==
    LET f == [k \in ConfigKeys |->
                CASE k = "data_default_viewers"          -> v
                  [] k = "data_default_owners"           -> o
                  [] k = "legal_tags"                    -> t
                  [] k = "legal_relevant_data_countries" -> c
                  [] k = "legal_status"                  -> s
                  [] k = "data_partition_id"             -> p]
    IN  [k \in {x \in ConfigKeys : f[x] # None} |-> Val(f[k])]

\* the raw config mappings: every subset of the six keys present
RawConfigs ==
    {MkConfig(v, o, t, c, s, p) :
        v \in {None, Some(<<>>), Some(<<"viewers@osdu">>)},
        o \in {None, Some(<<"owners@osdu">>)},
        t \in {None, Some(<<"osdu-public">>)},
        c \in {None, Some(<<"US">>)},
        s \in {None, Some("compliant")},
        p \in {None, Some("osdu")}}

\* a mapping with a key the Configuration does not know
WithUnknownKey(c) ==
    [k \in DOMAIN c \cup {"comment"} |-> IF k = "comment" THEN "draft" ELSE c[k]]

\* the mappings a Configuration is constructed from: with and without an
\* unknown key
ConfigMappings == RawConfigs \cup {WithUnknownKey(c) : c \in RawConfigs}

Configs == {Configuration(c) : c \in RawConfigs}

-----------------------------------------------------------------------------
(* Calls.  One call at a time: pc = "idle" between calls, "returned" when   *)
(* the call named by op, with arguments args, has returned or raised ret.  *)

Init ==
    /\ pc = "idle"
    /\ op = "none"
    /\ args = <<>>
    /\ ret = <<>>
    /\ pinned = <<>>
    /\ calls = <<>>
    /\ mappers = <<>>
    /\ heap = <<>>
    /\ cache = <<>>
    /\ files = {}
    /\ run = <<>>

CallBuildAcl ==
    /\ pc = "idle"
    /\ \E config \in Configs :
        /\ op' = "build_acl"
        /\ args' = [config |-> config]
        /\ ret' = build_acl(config)
    /\ pc' = "returned"
    /\ UNCHANGED <<pinned, calls, mappers, heap, cache, files, run>>

CallBuildLegal ==
    /\ pc = "idle"
    /\ \E config \in Configs :
        /\ op' = "build_legal"
        /\ args' = [config |-> config]
        /\ ret' = build_legal(config)
    /\ pc' = "returned"
    /\ UNCHANGED <<pinned, calls, mappers, heap, cache, files, run>>

CallGetUwi ==
    /\ pc = "idle"
    /\ \E las \in LoadedDocs :
        /\ op' = "_get_uwi"
        /\ args' = [las |-> las]
        /\ ret' = Ok(get_uwi(las))
    /\ pc' = "returned"
    /\ UNCHANGED <<pinned, calls, mappers, heap, cache, files, run>>

CallBuildNameAliases ==
    /\ pc = "idle"
    /\ \E las \in LoadedDocs, config \in Configs :
        /\ op' = "_build_name_aliases"
        /\ args' = [uwi |-> get_uwi(las), config |-> config]
        /\ ret' = build_name_aliases(get_uwi(las), config)
    /\ pc' = "returned"
    /\ UNCHANGED <<pinned, calls, mappers, heap, cache, files, run>>

CallBuildWellboreData ==
    /\ pc = "idle"
    /\ \E las \in LoadedDocs, config \in Configs :
        /\ op' = "build_wellbore_data"
        /\ args' = [las |-> las, config |-> config]
        /\ ret' = build_wellbore_data(las, config)
    /\ pc' = "returned"
    /\ UNCHANGED <<pinned, calls, mappers, heap, cache, files, run>>

CallBuildCurves ==
    /\ pc = "idle"
    /\ \E las \in LoadedDocs, config \in Configs :
        /\ op' = "_build_curves"
        /\ args' = [las |-> las, data_partition_id |-> config.data_partition_id]
        /\ ret' = build_curves(las, config.data_partition_id)
    /\ pc' = "returned"
    /\ UNCHANGED <<pinned, calls, mappers, heap, cache, files, run>>

CallBuildWellLogData ==
    /\ pc = "idle"
    /\ \E las \in LoadedDocs, config \in Configs, wellbore_id \in WellboreIds :
        /\ op' = "build_well_log_data"
        /\ args' = [las |-> las, config |-> config, wellbore_id |-> wellbore_id]
        /\ ret' = build_well_log_data(las, config, wellbore_id)
    /\ pc' = "returned"
    /\ UNCHANGED <<pinned, calls, mappers, heap, cache, files, run>>

CallMapToWellboreRecord ==
    /\ pc = "idle"
    /\ \E las \in LoadedDocs, config \in Configs :
        /\ op' = "map_to_wellbore_record"
        /\ args' = [las |-> las, config |-> config]
        /\ ret' = map_to_wellbore_record(las, config)
    /\ pc' = "returned"
    /\ UNCHANGED <<pinned, calls, mappers, heap, cache, files, run>>

CallMapToWellLogRecord ==
    /\ pc = "idle"
    /\ \E las \in LoadedDocs, config \in Configs, wellbore_id \in WellboreIds :
        /\ op' = "map_to_well_log_record"
        /\ args' = [las |-> las, config |-> config, wellbore_id |-> wellbore_id]
        /\ ret' = map_to_well_log_record(las, config, wellbore_id)
    /\ pc' = "returned"
    /\ UNCHANGED <<pinned, calls, mappers, heap, cache, files, run>>

CallLoadLasFile ==
    /\ pc = "idle"
    /\ \E las_content \in LasContents :
        /\ op' = "load_las_file"
        /\ args' = [las_content |-> las_content]
        /\ ret' = load_las_file(las_content)
    /\ pc' = "returned"
    /\ UNCHANGED <<pinned, calls, mappers, heap, cache, files, run>>

CallConfiguration ==
    /\ pc = "idle"
    /\ \E config_data \in ConfigMappings :
        /\ op' = "Configuration"
        /\ args' = [config_data |-> config_data]
        /\ ret' = Ok(Configuration(config_data))
    /\ pc' = "returned"
    /\ UNCHANGED <<pinned, calls, mappers, heap, cache, files, run>>

\* run_assembly_line, with what its three steps would do chosen by the
\* environment
CallRunAssemblyLine ==
    /\ pc = "idle"
    /\ \E ingest \in IngestOutcomes, search \in SearchOutcomes, merge \in MergeOutcomes :
        /\ op' = "run_assembly_line"
        /\ args' = [ingest |-> ingest, search |-> search, merge |-> merge]
        /\ ret' = run_assembly_line(ingest, search, merge)
    /\ pc' = "returned"
    /\ UNCHANGED <<pinned, calls, mappers, heap, cache, files, run>>

CallConvert ==
    /\ pc = "idle"
    /\ \E las_content \in LasContents, wellbore_id \in WellboreIds, config_content \in RawConfigs :
        /\ op' = "convert"
        /\ args' = [las_content |-> las_content, wellbore_id |-> wellbore_id,
                    config_content |-> config_content]
        /\ ret' = convert_las_to_osdu_records(las_content, wellbore_id, config_content)
    /\ pc' = "returned"
    /\ UNCHANGED <<pinned, calls, mappers, heap, cache, files, run>>

\* the caller takes the result; nothing of the call is kept
Return ==
    /\ pc = "returned"
    /\ pc' = "idle"
    /\ op' = "none"
    /\ args' = <<>>
    /\ ret' = <<>>
    /\ UNCHANGED <<pinned, calls, mappers, heap, cache, files, run>>

Next ==
    \/ CallBuildAcl
    \/ CallBuildLegal
    \/ CallGetUwi
    \/ CallBuildNameAliases
    \/ CallBuildWellboreData
    \/ CallBuildCurves
    \/ CallBuildWellLogData
    \/ CallMapToWellboreRecord
    \/ CallMapToWellLogRecord
    \/ CallLoadLasFile
    \/ CallConfiguration
    \/ CallRunAssemblyLine
    \/ CallConvert
    \/ Return

Spec == Init /\ [][Next]_vars

-----------------------------------------------------------------------------
(* Idempotence of convert.  A conversion's inputs and outcome are pinned;  *)
(* later conversions, of these or of other inputs, follow.  The last       *)
(* outcome stays in the process between calls.                             *)

IdemDocs ==
    {[well |-> [WELL |-> Some(<<"W", "-", "A">>), UWI |-> Some(<<"4", "2">>)],
      curves |-> <<[mnemonic |-> <<"D", "E", "P", "T">>, unit |-> <<"M">>],
                   [mnemonic |-> <<"G", "R">>, unit |-> <<>>]>>],
     [well |-> [WELL |-> Some(<<"W", "-", "A">>), UWI |-> None],
      curves |-> <<[mnemonic |-> <<"G", "R">>, unit |-> <<"K", " ", "M">>]>>],
     [well |-> [WELL |-> None, UWI |-> None], curves |-> <<>>]}

IdemContents == {None} \cup BadTexts \cup {LasText(d) : d \in IdemDocs}

IdemConfigs ==
    {MkConfig(Some(<<"viewers@osdu">>), Some(<<"owners@osdu">>), Some(<<"osdu-public">>),
              Some(<<"US">>), Some("compliant"), Some("osdu")),
     MkConfig(Some(<<>>), Some(<<"owners@osdu">>), Some(<<"osdu-public">>),
              Some(<<"US">>), Some("compliant"), Some("osdu")),
     MkConfig(Some(<<"viewers@osdu">>), Some(<<"owners@osdu">>), Some(<<"osdu-public">>),
              Some(<<"US">>), Some("compliant"), None)}

IdemWellboreIds == {<<>>, <<"w", "b", "-", "1">>, <<"w", "b", "-", "2">>}

IdemConvert ==
    /\ pc = "idle"
    /\ \E las_content \in IdemContents, wellbore_id \in IdemWellboreIds,
          config_content \in IdemConfigs :
        /\ op' = "convert"
        /\ args' = [las_content |-> las_content, wellbore_id |-> wellbore_id,
                    config_content |-> config_content]
        /\ ret' = convert_las_to_osdu_records(las_content, wellbore_id, config_content)
        /\ pinned' = IF pinned # <<>> /\ args' # Val(pinned).args
                     THEN <<[Val(pinned) EXCEPT !.between = TRUE]>>
                     ELSE pinned
    /\ pc' = "returned"
    /\ UNCHANGED <<calls, mappers, heap, cache, files, run>>

IdemPin ==
    /\ pc = "returned"
    /\ pinned = <<>>
    /\ pinned' = <<[args |-> args, ret |-> ret, between |-> FALSE]>>
    /\ UNCHANGED <<pc, op, args, ret, calls, mappers, heap, cache, files, run>>

IdemReturn ==
    /\ pc = "returned"
    /\ pc' = "idle"
    /\ UNCHANGED <<op, args, ret, pinned, calls, mappers, heap, cache, files, run>>

NextIdem == IdemConvert \/ IdemPin \/ IdemReturn

SpecIdem == Init /\ [][NextIdem]_vars

-----------------------------------------------------------------------------
(* The error classes of the specification.  The code raises ValueError for *)
(* both; the message tells a missing configuration field from a missing    *)
(* domain value.                                                           *)

IsConfigError(r) ==
    /\ ~r.ok
    /\ r.exc = "ValueError"
    /\ r.msg \in {MSG_ACL, MSG_LEGAL, MSG_PARTITION, MSG_PARTITION_CURVES}

IsValidationError(r) ==
    /\ ~r.ok
    /\ r.exc = "ValueError"
    /\ r.msg \in {MSG_WELLBORE_ID, MSG_REF_CURVE}

Returned(o) == pc = "returned" /\ op = o

\* blank: empty after trimming
Blank(s) == Strip(s) = <<>>

AclUnset(config) ==
    config.data_default_viewers = None \/ config.data_default_owners = None

LegalUnset(config) ==
    \/ config.legal_tags = None
    \/ config.legal_relevant_data_countries = None
    \/ config.legal_status = None

\* lasio parsed the text of the call
Parsed(las_content) == las_content # None /\ Val(las_content).kind = "las"

-----------------------------------------------------------------------------
(* C1 *)

\* C1: for every LAS text that parses and whose first curve has a non-blank
\* mnemonic, every configuration with all six fields and every non-blank
\* wellbore id, convert returns a Wellbore record with id = wellboreId and a
\* WellLog record with id = wellboreId followed by "-log".
C1_ConvertAssignsIds ==
    ( /\ Returned("convert")
      /\ Parsed(args.las_content)
      /\ Val(args.las_content).doc.curves # <<>>
      /\ ~Blank(Val(args.las_content).doc.curves[1].mnemonic)
      /\ DOMAIN args.config_content = ConfigKeys
      /\ ~Blank(args.wellbore_id) )
    => /\ ret.ok
       /\ ret.val.wellbore_record.id = Some(args.wellbore_id)
       /\ ret.val.welllog_record.id = Some(Str(args.wellbore_id) \o "-log")

-----------------------------------------------------------------------------
(* C2 *)

C2_BuildAcl ==
    Returned("build_acl") =>
        /\ AclUnset(args.config) <=> IsConfigError(ret)
        /\ ~AclUnset(args.config) => ret.ok
        /\ ~ret.ok => ret = Raise("ValueError", MSG_ACL)

C2_Mappers ==
    ( /\ pc = "returned"
      /\ op \in {"map_to_wellbore_record", "map_to_well_log_record"}
      /\ AclUnset(args.config) )
    => ret = Raise("ValueError", MSG_ACL)

\* C2 as stated: build_acl fails with ConfigError exactly when viewers or
\* owners is unset, and the two mappers and convert fail with ConfigError for
\* every configuration missing either field.
C2_Original ==
    /\ C2_BuildAcl
    /\ C2_Mappers
    /\ ( Returned("convert") /\ AclUnset(Configuration(args.config_content)) )
       => IsConfigError(ret)

\* C2 amended: as C2, but convert fails with ConfigError for such a
\* configuration only when the parser returned a document; when it did not,
\* convert fails with the parser's error before any ACL is built.
C2_AclConfigError ==
    /\ C2_BuildAcl
    /\ C2_Mappers
    /\ ( Returned("convert") /\ AclUnset(Configuration(args.config_content)) )
       => /\ ~ret.ok
          /\ load_las_file(args.las_content).ok => ret = Raise("ValueError", MSG_ACL)
          /\ ~load_las_file(args.las_content).ok =>
                 ret = Handle(load_las_file(args.las_content))

C2_Witness ==
    /\ Returned("convert")
    /\ Get(args.config_content, "data_default_viewers") = Some(<<>>)
    /\ Get(args.config_content, "data_default_owners") = None
    /\ DOMAIN args.config_content = ConfigKeys \ {"data_default_owners"}
    /\ load_las_file(args.las_content).ok
    /\ IsConfigError(ret)

-----------------------------------------------------------------------------
(* C3 *)

\* C3: build_legal fails with ConfigError if any of legal_tags,
\* legal_relevant_data_countries, legal_status is unset, and otherwise returns
\* the three configured values under legaltags, otherRelevantDataCountries
\* and status.
C3_BuildLegal ==
    Returned("build_legal") =>
        /\ LegalUnset(args.config) => ret = Raise("ValueError", MSG_LEGAL)
        /\ ~LegalUnset(args.config) =>
              /\ ret.ok
              /\ DOMAIN ret.val = {"legaltags", "otherRelevantDataCountries", "status"}
              /\ ret.val.legaltags = Val(args.config.legal_tags)
              /\ ret.val.otherRelevantDataCountries
                     = Val(args.config.legal_relevant_data_countries)
              /\ ret.val.status = Val(args.config.legal_status)

C3_Witness ==
    /\ Returned("build_legal")
    /\ ~LegalUnset(args.config)
    /\ ret.ok
    /\ ret.val.legaltags # ret.val.otherRelevantDataCountries

-----------------------------------------------------------------------------
(* C4 *)

-----------------------------------------------------------------------------
(* C5 *)

C5_WellLogFails ==
    ( Returned("build_well_log_data") /\ args.las.curves = <<>> )
    => IsValidationError(ret)

\* C5 as stated: for a document with zero curves build_well_log_data fails
\* with ValidationError and build_wellbore_data on the same document and
\* configuration succeeds.
C5_Original ==
    /\ C5_WellLogFails
    /\ ( Returned("build_well_log_data") /\ args.las.curves = <<>> )
       => build_wellbore_data(args.las, args.config).ok
    /\ ( Returned("build_wellbore_data") /\ args.las.curves = <<>> ) => ret.ok

\* what build_wellbore_data on (las, config) must give when it reads the well
\* section alone: a failure exactly when a UWI is set and the partition id is not
WellboreDataAsExpected(las, config, r) ==
    /\ r = build_wellbore_data([las EXCEPT !.curves = <<>>], config)
    /\ r = build_wellbore_data(
               [las EXCEPT !.curves = <<[mnemonic |-> <<"G", "R">>, unit |-> <<>>]>>],
               config)
    /\ r.ok <=> ~(get_uwi(las) # None /\ config.data_partition_id = None)
    /\ ~r.ok => r = Raise("ValueError", MSG_PARTITION)

\* C5 amended: for a document with zero curves build_well_log_data fails with
\* ValidationError, while build_wellbore_data on the same document and
\* configuration gives the outcome it gives with any other curve section: it
\* succeeds unless a UWI is set and dataPartitionId is unset (ConfigError).
C5_WellboreIgnoresCurves ==
    /\ C5_WellLogFails
    /\ ( Returned("build_well_log_data") /\ args.las.curves = <<>> )
       => WellboreDataAsExpected(args.las, args.config,
                                 build_wellbore_data(args.las, args.config))
    /\ Returned("build_wellbore_data")
       => WellboreDataAsExpected(args.las, args.config, ret)

C5_Witness ==
    /\ Returned("build_wellbore_data")
    /\ args.las.curves = <<>>
    /\ ret.ok
    /\ build_well_log_data(args.las, args.config, <<"w", "b", "-", "1">>)
           = Raise("ValueError", MSG_REF_CURVE)

-----------------------------------------------------------------------------
(* C6 *)

UwiBlank(las) == las.well.UWI = None \/ Blank(Val(las.well.UWI))

\* C6: when the well section has no UWI, or a blank one, build_wellbore_data
\* returns NameAliases as an empty sequence and raises nothing, also when
\* dataPartitionId is unset.
C6_NoUwiNoAliases ==
    ( Returned("build_wellbore_data") /\ UwiBlank(args.las) )
    => /\ ret.ok
       /\ ret.val.NameAliases = <<>>

C6_Witness ==
    /\ Returned("build_wellbore_data")
    /\ args.las.well.UWI = Some(<<" ">>)
    /\ args.config.data_partition_id = None
    /\ ret.ok
    /\ ret.val.NameAliases = <<>>

-----------------------------------------------------------------------------
(* C7 *)

\* C7: when a UWI is set, _build_name_aliases fails with ConfigError if
\* dataPartitionId is unset, and otherwise returns exactly one alias entry,
\* with AliasName the UWI and AliasNameTypeID
\* "<partitionId>:reference-data--AliasNameType:UniqueIdentifier:".
C7_NameAliases ==
    ( Returned("_build_name_aliases") /\ args.uwi # None )
    => IF args.config.data_partition_id = None
       THEN IsConfigError(ret)
       ELSE /\ ret.ok
            /\ Len(ret.val) = 1
            /\ ret.val[1].AliasName = Val(args.uwi)
            /\ ret.val[1].AliasNameTypeID
                   = Val(args.config.data_partition_id)
                     \o ":reference-data--AliasNameType:UniqueIdentifier:"

C7_Witness ==
    /\ Returned("_build_name_aliases")
    /\ args.uwi = Some(<<"4", "2", "-", "0", "1">>)
    /\ ret.ok
    /\ ret.val = <<[AliasName |-> <<"4", "2", "-", "0", "1">>,
                    AliasNameTypeID |->
                        "osdu:reference-data--AliasNameType:UniqueIdentifier:"]>>

-----------------------------------------------------------------------------
(* C8 *)

BadReferenceCurve(las) == las.curves = <<>> \/ Blank(las.curves[1].mnemonic)

\* C8: build_well_log_data fails with ValidationError for every blank
\* wellboreId (empty after trimming), fails with ValidationError when the
\* document has no curves or a blank first mnemonic, fails with ConfigError
\* when dataPartitionId is unset, and returns a data block only when none of
\* these holds.
C8_WellLogDataErrors ==
    Returned("build_well_log_data") =>
        /\ Blank(args.wellbore_id) => IsValidationError(ret)
        /\ BadReferenceCurve(args.las) => IsValidationError(ret)
        /\ ( /\ ~Blank(args.wellbore_id)
             /\ ~BadReferenceCurve(args.las)
             /\ args.config.data_partition_id = None ) => IsConfigError(ret)
        /\ ret.ok <=> /\ ~Blank(args.wellbore_id)
                      /\ ~BadReferenceCurve(args.las)
                      /\ args.config.data_partition_id # None

-----------------------------------------------------------------------------
(* C9 *)

\* C9: on success build_well_log_data returns ReferenceCurveID = the mnemonic
\* of the first curve in document order and WellboreID =
\* "<partitionId>:master-data--Wellbore:<wellboreId>:".
C9_ReferenceCurve ==
    ( Returned("build_well_log_data") /\ ret.ok )
    => /\ ret.val.ReferenceCurveID = args.las.curves[1].mnemonic
       /\ ret.val.WellboreID
              = Val(args.config.data_partition_id) \o ":master-data--Wellbore:"
                \o Str(args.wellbore_id) \o ":"

C9_Witness ==
    /\ Returned("build_well_log_data")
    /\ Len(args.las.curves) = 2
    /\ args.las.curves[1].mnemonic = <<"G", "R">>
    /\ args.las.curves[2].mnemonic = <<"D", "E", "P", "T">>
    /\ args.wellbore_id = <<"w", "b", "-", "1">>
    /\ ret.ok
    /\ ret.val.ReferenceCurveID = <<"G", "R">>
    /\ ret.val.WellboreID = "osdu:master-data--Wellbore:wb-1:"

-----------------------------------------------------------------------------
(* C10 *)

\* the curve entries a call produced
ProducedCurves ==
    IF Returned("_build_curves") /\ ret.ok THEN ret.val
    ELSE IF Returned("build_well_log_data") /\ ret.ok THEN ret.val.Curves
    ELSE IF Returned("map_to_well_log_record") /\ ret.ok THEN ret.val.data.Curves
    ELSE IF Returned("convert") /\ ret.ok THEN ret.val.welllog_record.data.Curves
    ELSE <<>>

\* the curve section and partition id the produced entries were built from
SourceCurves ==
    IF op = "convert" THEN Val(args.las_content).doc.curves ELSE args.las.curves

SourcePartition ==
    IF op = "convert" THEN args.config_content["data_partition_id"]
    ELSE IF op = "_build_curves" THEN Val(args.data_partition_id)
    ELSE Val(args.config.data_partition_id)

\* C10: a curve whose unit is the empty string gets CurveUnit
\* "<partitionId>:reference-data--UnitOfMeasure:UNITLESS:", and no produced
\* CurveUnit has an empty segment between "UnitOfMeasure:" and the final colon.
C10_Unitless ==
    \A i \in 1..Len(ProducedCurves) :
        /\ SourceCurves[i].unit = <<>> =>
              ProducedCurves[i].CurveUnit
                  = SourcePartition \o ":reference-data--UnitOfMeasure:UNITLESS:"
        /\ ProducedCurves[i].CurveUnit
               # SourcePartition \o ":reference-data--UnitOfMeasure::"

C10_Witness ==
    /\ Returned("_build_curves")
    /\ ret.ok
    /\ Len(ret.val) = 2
    /\ args.las.curves[2].unit = <<>>
    /\ ret.val[2].CurveUnit = "osdu:reference-data--UnitOfMeasure:UNITLESS:"
    /\ ret.val[1].CurveUnit = "osdu:reference-data--UnitOfMeasure:K%20M:"

-----------------------------------------------------------------------------
(* C11 *)

\* C11: in one conversion the Wellbore record has kind
\* "osdu:wks:master-data--Wellbore:1.0.0", the WellLog record has kind
\* "osdu:wks:work-product-component--WellLog:1.0.0", and the acl and legal
\* blocks of the two records are equal.
C11_KindsAndSharedBlocks ==
    /\ ( Returned("convert") /\ ret.ok ) =>
          /\ ret.val.wellbore_record.kind = "osdu:wks:master-data--Wellbore:1.0.0"
          /\ ret.val.welllog_record.kind
                 = "osdu:wks:work-product-component--WellLog:1.0.0"
          /\ ret.val.wellbore_record.acl = ret.val.welllog_record.acl
          /\ ret.val.wellbore_record.legal = ret.val.welllog_record.legal
    /\ ( Returned("map_to_wellbore_record") /\ ret.ok ) =>
          ret.val.kind = "osdu:wks:master-data--Wellbore:1.0.0"
    /\ ( Returned("map_to_well_log_record") /\ ret.ok ) =>
          ret.val.kind = "osdu:wks:work-product-component--WellLog:1.0.0"

C11_Witness ==
    /\ Returned("convert")
    /\ ret.ok
    /\ ret.val.wellbore_record.acl
           = [viewers |-> <<"viewers@osdu">>, owners |-> <<"owners@osdu">>]
    /\ ret.val.welllog_record.acl = ret.val.wellbore_record.acl
    /\ ret.val.wellbore_record.kind # ret.val.welllog_record.kind

-----------------------------------------------------------------------------
(* C12 *)

\* r is the exception the builder call with outcome x raised
RaisedBy(r, x) == ~x.ok /\ r = x

\* some builder of a mapping of (las, config, wellbore_id) fails
WellboreBuilderFails(las, config) ==
    ~build_acl(config).ok \/ ~build_legal(config).ok
        \/ ~build_wellbore_data(las, config).ok

WellLogBuilderFails(las, config, wellbore_id) ==
    ~build_acl(config).ok \/ ~build_legal(config).ok
        \/ ~build_well_log_data(las, config, wellbore_id).ok

\* C12: a ConfigError or ValidationError raised by an attribute builder
\* reaches the caller of the record mapper and the caller of convert as that
\* same error with the same message.
C12_BuilderErrorsUnchanged ==
    /\ ( Returned("map_to_wellbore_record")
         /\ WellboreBuilderFails(args.las, args.config) )
       => /\ \/ RaisedBy(ret, build_acl(args.config))
             \/ RaisedBy(ret, build_legal(args.config))
             \/ RaisedBy(ret, build_wellbore_data(args.las, args.config))
          /\ IsConfigError(ret) \/ IsValidationError(ret)
    /\ ( Returned("map_to_well_log_record")
         /\ WellLogBuilderFails(args.las, args.config, args.wellbore_id) )
       => /\ \/ RaisedBy(ret, build_acl(args.config))
             \/ RaisedBy(ret, build_legal(args.config))
             \/ RaisedBy(ret, build_well_log_data(args.las, args.config,
                                                  args.wellbore_id))
          /\ IsConfigError(ret) \/ IsValidationError(ret)
    /\ ( /\ Returned("convert")
         /\ load_las_file(args.las_content).ok
         /\ LET las    == load_las_file(args.las_content).val
                config == Configuration(args.config_content)
            IN  \/ WellboreBuilderFails(las, config)
                \/ WellLogBuilderFails(las, config, args.wellbore_id) )
       => LET las    == load_las_file(args.las_content).val
              config == Configuration(args.config_content)
          IN  /\ \/ RaisedBy(ret, build_acl(config))
                 \/ RaisedBy(ret, build_legal(config))
                 \/ RaisedBy(ret, build_wellbore_data(las, config))
                 \/ RaisedBy(ret, build_well_log_data(las, config, args.wellbore_id))
              /\ IsConfigError(ret) \/ IsValidationError(ret)

C12_Witness ==
    /\ Returned("convert")
    /\ load_las_file(args.las_content).ok
    /\ map_to_wellbore_record(load_las_file(args.las_content).val,
                              Configuration(args.config_content)).ok
    /\ ret = Raise("ValueError", MSG_REF_CURVE)

-----------------------------------------------------------------------------
(* C13 *)

\* the exception raised in the try block of the convert call, if any
TryOutcome ==
    convert_try(args.las_content, args.wellbore_id, args.config_content)

Wrapped(e) == Raise("Exception", "An unexpected error occurred: " \o e.msg)

\* C13 as stated: a failure in convert that is neither a ValidationError nor
\* a ConfigError reaches the caller as the generic error whose message
\* contains the original message, and convert does not return normally.
C13_Original ==
    ( /\ Returned("convert")
      /\ ~TryOutcome.ok
      /\ ~IsConfigError(TryOutcome)
      /\ ~IsValidationError(TryOutcome) )
    => ret = Wrapped(TryOutcome)

\* C13 amended: a failure in convert whose exception is not a ValueError, a
\* TypeError or a FileValidationError reaches the caller as the generic error
\* whose message contains the original message; a failure of one of these
\* three types, a ValueError of the LAS parser included, reaches the caller
\* unchanged; convert never returns normally after a failure.
C13_UnexpectedWrapped ==
    ( Returned("convert") /\ ~TryOutcome.ok )
    => /\ ~ret.ok
       /\ TryOutcome.exc \notin {"ValueError", "TypeError", "FileValidationError"}
              => ret = Wrapped(TryOutcome)
       /\ TryOutcome.exc \in {"ValueError", "TypeError", "FileValidationError"}
              => ret = TryOutcome

C13_Witness ==
    /\ Returned("convert")
    /\ args.las_content = None
    /\ ret = Raise("Exception", "An unexpected error occurred: No content provided.")

-----------------------------------------------------------------------------
(* C14 *)

Unparsable(las_content) == las_content # None /\ Val(las_content).kind = "bad"

\* C14 as stated: when the LAS text cannot be parsed the caller of convert
\* receives the parser's error unchanged, of a type other than those of
\* ConversionError, ConfigError and ValidationError.
C14_Original ==
    ( Returned("convert") /\ Unparsable(args.las_content) )
    => /\ ret = lasio_read(Val(args.las_content))
       /\ ret.exc \notin {"Exception", "ValueError"}

\* C14 amended: when the LAS text cannot be parsed the caller of convert
\* receives an error and no records: the generic ConversionError carrying the
\* parser's message or, when the parser raised a ValueError, that ValueError
\* unchanged; only its message tells it from a ConfigError or ValidationError.
C14_ParseFailure ==
    ( Returned("convert") /\ Unparsable(args.las_content) )
    => LET e == lasio_read(Val(args.las_content))
       IN  /\ ~ret.ok
           /\ ret = IF e.exc = "ValueError" THEN e ELSE Wrapped(e)
           /\ ~IsConfigError(ret)
           /\ ~IsValidationError(ret)

C14_Witness ==
    /\ Returned("convert")
    /\ Unparsable(args.las_content)
    /\ Val(args.las_content).exc = "LASHeaderError"
    /\ DOMAIN args.config_content = ConfigKeys
    /\ ret = Raise("Exception", "An unexpected error occurred: ~V section not found")

-----------------------------------------------------------------------------
(* C15 *)

\* the Wellbore record was built and the WellLog mapping failed after it
WellLogFailedAfterWellbore ==
    /\ load_las_file(args.las_content).ok
    /\ map_to_wellbore_record(load_las_file(args.las_content).val,
                              Configuration(args.config_content)).ok
    /\ ~map_to_well_log_record(load_las_file(args.las_content).val,
                               Configuration(args.config_content),
                               args.wellbore_id).ok

\* C15: convert returns both records or an error, never one record alone;
\* when the WellLog mapping fails after the Wellbore record was built, the
\* caller receives the error and no record.
C15_BothOrNone ==
    Returned("convert") =>
        /\ ret.ok => DOMAIN ret.val = {"wellbore_record", "welllog_record"}
        /\ ~ret.ok => DOMAIN ret = {"ok", "exc", "msg"}
        /\ WellLogFailedAfterWellbore =>
              ret = map_to_well_log_record(load_las_file(args.las_content).val,
                                           Configuration(args.config_content),
                                           args.wellbore_id)

C15_Witness ==
    /\ Returned("convert")
    /\ WellLogFailedAfterWellbore
    /\ args.wellbore_id # <<>>
    /\ ~ret.ok

-----------------------------------------------------------------------------
(* Two convert calls running in different threads.  calls[t] holds the     *)
(* arguments, the position and the locals of the call of thread t;         *)
(* mappers holds the LasToRecordMapper objects.  Every statement of the    *)
(* try block is one step.                                                  *)

Threads == {1, 2}

ConcContents == {None} \cup {LasText(d) : d \in IdemDocs}

ConcWellboreIds == {<<>>, <<"w", "b", "-", "1">>}

ConcConfigs ==
    {MkConfig(Some(<<"viewers@osdu">>), Some(<<"owners@osdu">>), Some(<<"osdu-public">>),
              Some(<<"US">>), Some("compliant"), Some("osdu")),
     MkConfig(Some(<<"viewers@osdu">>), Some(<<"owners@osdu">>), Some(<<"osdu-public">>),
              Some(<<"US">>), Some("compliant"), None)}

\* Mutant: one mapper object is shared by all calls.
MapperOf_singleton(t) == 1

\* the mapper of a call: "mapper = LasToRecordMapper(las_data, config)", an
\* object of its own for every call
MapperOf(t) == t

NewCall(las_content, wellbore_id, config_content) ==
    [pc |-> "start", overlapped |-> FALSE,
     las_content |-> las_content, wellbore_id |-> wellbore_id,
     config_content |-> config_content,
     config |-> <<>>, las_data |-> <<>>,
     wellbore_record |-> <<>>, welllog_record |-> <<>>, result |-> <<>>]

InitConc ==
    /\ pc = "idle"
    /\ op = "none"
    /\ args = <<>>
    /\ ret = <<>>
    /\ pinned = <<>>
    /\ mappers = [t \in Threads |-> <<>>]
    /\ heap = <<>>
    /\ cache = <<>>
    /\ files = {}
    /\ run = <<>>
    /\ \E c1, c2 \in ConcContents, w1, w2 \in ConcWellboreIds,
          k1, k2 \in ConcConfigs :
        /\ <<c1, w1, k1>> # <<c2, w2, k2>>
        /\ calls = [t \in Threads |->
                      IF t = 1 THEN NewCall(c1, w1, k1) ELSE NewCall(c2, w2, k2)]

\* another call is between its first and its last statement
Running(t) == calls[t].pc \notin {"start", "done"}

Overlap(t) == calls[t].overlapped \/ \E u \in Threads \ {t} : Running(u)

\* thread t leaves the try block with exception e
Fail(t, e) ==
    [calls EXCEPT ![t].pc = "done", ![t].result = Handle(e),
                  ![t].overlapped = Overlap(t)]

ConcConfiguration ==
    \E t \in Threads :
        /\ calls[t].pc = "start"
        /\ calls' = [calls EXCEPT ![t].pc = "load",
                                  ![t].config = Configuration(calls[t].config_content),
                                  ![t].overlapped = Overlap(t)]
        /\ UNCHANGED <<pc, op, args, ret, pinned, mappers, heap, cache, files, run>>

ConcLoad ==
    \E t \in Threads :
        /\ calls[t].pc = "load"
        /\ LET las_data == load_las_file(calls[t].las_content)
           IN  calls' = IF ~las_data.ok THEN Fail(t, las_data)
                        ELSE [calls EXCEPT ![t].pc = "mapper",
                                           ![t].las_data = las_data.val,
                                           ![t].overlapped = Overlap(t)]
        /\ UNCHANGED <<pc, op, args, ret, pinned, mappers, heap, cache, files, run>>

ConcMapper ==
    \E t \in Threads :
        /\ calls[t].pc = "mapper"
        /\ mappers' = [mappers EXCEPT ![MapperOf(t)] =
                          [las |-> calls[t].las_data, config |-> calls[t].config]]
        /\ calls' = [calls EXCEPT ![t].pc = "map_wellbore",
                                  ![t].overlapped = Overlap(t)]
        /\ UNCHANGED <<pc, op, args, ret, pinned, heap, cache, files, run>>

ConcMapWellbore ==
    \E t \in Threads :
        /\ calls[t].pc = "map_wellbore"
        /\ LET mapper == mappers[MapperOf(t)]
               wb     == map_to_wellbore_record(mapper.las, mapper.config)
           IN  calls' = IF ~wb.ok THEN Fail(t, wb)
                        ELSE [calls EXCEPT ![t].pc = "set_id",
                                           ![t].wellbore_record = wb.val,
                                           ![t].overlapped = Overlap(t)]
        /\ UNCHANGED <<pc, op, args, ret, pinned, mappers, heap, cache, files, run>>

ConcSetId ==
    \E t \in Threads :
        /\ calls[t].pc = "set_id"
        /\ calls' = [calls EXCEPT ![t].pc = "map_well_log",
                                  ![t].wellbore_record.id = Some(calls[t].wellbore_id),
                                  ![t].overlapped = Overlap(t)]
        /\ UNCHANGED <<pc, op, args, ret, pinned, mappers, heap, cache, files, run>>

ConcMapWellLog ==
    \E t \in Threads :
        /\ calls[t].pc = "map_well_log"
        /\ LET mapper == mappers[MapperOf(t)]
               wl     == map_to_well_log_record(mapper.las, mapper.config,
                                                calls[t].wellbore_id)
           IN  calls' = IF ~wl.ok THEN Fail(t, wl)
                        ELSE [calls EXCEPT ![t].pc = "return",
                                           ![t].welllog_record = wl.val,
                                           ![t].overlapped = Overlap(t)]
        /\ UNCHANGED <<pc, op, args, ret, pinned, mappers, heap, cache, files, run>>

ConcReturn ==
    \E t \in Threads :
        /\ calls[t].pc = "return"
        /\ calls' = [calls EXCEPT
                        ![t].pc = "done",
                        ![t].result = Ok([wellbore_record |-> calls[t].wellbore_record,
                                          welllog_record  |-> calls[t].welllog_record]),
                        ![t].overlapped = Overlap(t)]
        /\ UNCHANGED <<pc, op, args, ret, pinned, mappers, heap, cache, files, run>>

NextConc ==
    \/ ConcConfiguration
    \/ ConcLoad
    \/ ConcMapper
    \/ ConcMapWellbore
    \/ ConcSetId
    \/ ConcMapWellLog
    \/ ConcReturn

SpecConc == InitConc /\ [][NextConc]_vars

-----------------------------------------------------------------------------
(* C16 *)

\* C16: in every interleaving of two convert calls with distinct inputs each
\* call ends with the result it gives when run alone.
C16_CallsIndependent ==
    \A t \in DOMAIN calls :
        calls[t].pc = "done" =>
            calls[t].result
                = convert_las_to_osdu_records(calls[t].las_content,
                                              calls[t].wellbore_id,
                                              calls[t].config_content)

C16_Witness ==
    /\ DOMAIN calls = Threads
    /\ \A t \in Threads :
          /\ calls[t].pc = "done"
          /\ calls[t].overlapped
          /\ calls[t].result.ok
    /\ calls[1].result # calls[2].result

-----------------------------------------------------------------------------
(* C17 *)

\* the unit segment in which every space of the unit is a hyphen and the other
\* characters are percent-encoded
HyphenatedUnit(unit) == Quote(Replace(unit, " ", "-"))

\* C17: for a curve whose unit contains a space the produced CurveUnit has the
\* unit segment with every space as a hyphen, so with neither a space nor "%20".
C17_SpacesAsHyphens ==
    \A i \in 1..Len(ProducedCurves) :
        (\E k \in 1..Len(SourceCurves[i].unit) : SourceCurves[i].unit[k] = " ") =>
            ProducedCurves[i].CurveUnit
                = SourcePartition \o ":reference-data--UnitOfMeasure:"
                    \o Str(HyphenatedUnit(SourceCurves[i].unit)) \o ":"

-----------------------------------------------------------------------------
(* C18 *)

\* the well section of the parsed text has no WELL item, or a blank WELL value
WellAbsentOrBlank(doc) == doc.well.WELL = None \/ Blank(Val(doc.well.WELL))

\* C18: load_las_file returns the parsed document when the WELL value is blank
\* and when the WELL mnemonic is absent from the well section.
C18_WellNeverRejected ==
    ( /\ Returned("load_las_file")
      /\ Parsed(args.las_content)
      /\ WellAbsentOrBlank(Val(args.las_content).doc) )
    => ret = Ok(Val(args.las_content).doc)

-----------------------------------------------------------------------------
(* C19 *)

\* the three builder calls of a mapper method, in the order of the source
BuilderOrder == <<"acl", "legal", "data">>

\* every order in which the three calls can be made
BuilderOrders ==
    {o \in [1..3 -> {"acl", "legal", "data"}] :
        \A i, j \in 1..3 : o[i] = o[j] => i = j}

\* the outcomes of the three builder calls of the returned mapper method
BuilderOutcomes ==
    [acl   |-> build_acl(args.config),
     legal |-> build_legal(args.config),
     data  |-> IF op = "map_to_wellbore_record"
               THEN build_wellbore_data(args.las, args.config)
               ELSE build_well_log_data(args.las, args.config, args.wellbore_id)]

\* the mapper method with its three builder calls made in the given order: the
\* first failing call raises, otherwise the record is assembled
MapInOrder(order) ==
    LET b == BuilderOutcomes
    IN  IF ~b[order[1]].ok THEN b[order[1]]
        ELSE IF ~b[order[2]].ok THEN b[order[2]]
        ELSE IF ~b[order[3]].ok THEN b[order[3]]
        ELSE Ok(Record(IF op = "map_to_wellbore_record" THEN KIND_WELLBORE
                                                        ELSE KIND_WELLLOG,
                       b.acl.val, b.legal.val, b.data.val,
                       IF op = "map_to_wellbore_record" THEN None
                       ELSE Some(LogId(args.wellbore_id))))

FailingBuilders == {k \in {"acl", "legal", "data"} : ~BuilderOutcomes[k].ok}

MapperReturned == Returned("map_to_wellbore_record") \/ Returned("map_to_well_log_record")

\* C19 as stated: the outcome of a mapper method is the same under every order
\* of the three builder calls, also when more than one builder fails.
C19_Original ==
    MapperReturned => \A o \in BuilderOrders : MapInOrder(o) = ret

\* C19: the outcome of a mapper method is the same under every order of the
\* three builder calls when at most one builder fails; when more than one
\* fails the error is that of the first failing call in the order ACL, Legal,
\* data.
C19_OrderMattersOnlyForErrors ==
    MapperReturned =>
        /\ ret = MapInOrder(BuilderOrder)
        /\ Cardinality(FailingBuilders) <= 1 =>
              \A o \in BuilderOrders : MapInOrder(o) = ret

C19_Witness ==
    /\ Returned("map_to_well_log_record")
    /\ FailingBuilders = {"acl", "legal", "data"}
    /\ ret = BuilderOutcomes.acl
    /\ \E o \in BuilderOrders : MapInOrder(o) # ret

-----------------------------------------------------------------------------
(* C20 *)

\* C20: _get_uwi never raises; it returns the UWI value when the UWI item is
\* present with a value that is non-blank after trimming, and unset when the
\* item is absent or its value is empty or only whitespace.
C20_GetUwi ==
    Returned("_get_uwi") =>
        /\ ret.ok
        /\ ret.val = IF args.las.well.UWI # None /\ Strip(Val(args.las.well.UWI)) # <<>>
                     THEN Some(Val(args.las.well.UWI))
                     ELSE None

C20_Witness ==
    /\ Returned("_get_uwi")
    /\ args.las.well.UWI = Some(<<" ">>)
    /\ ret = Ok(None)

-----------------------------------------------------------------------------
(* C21 *)

\* the configuration fields a builder reads
FieldsRead(o) ==
    CASE o = "build_acl"   -> {"data_default_viewers", "data_default_owners"}
      [] o = "build_legal" -> {"legal_tags", "legal_relevant_data_countries",
                               "legal_status"}
      [] OTHER             -> {"data_partition_id"}

ConfigBuilders == {"build_acl", "build_legal", "_build_name_aliases",
                   "build_wellbore_data", "build_well_log_data"}

\* C21: constructing a Configuration from a mapping never fails: every absent
\* key is held as unset, every present key holds the supplied value, unknown
\* keys are ignored; a builder raises a ConfigError only when a field it reads
\* is unset.
C21_ConfigurationDefers ==
    /\ Returned("Configuration") =>
          /\ ret.ok
          /\ DOMAIN ret.val = ConfigKeys
          /\ \A k \in ConfigKeys :
                ret.val[k] = IF k \in DOMAIN args.config_data
                             THEN Some(args.config_data[k])
                             ELSE None
    /\ \A o \in ConfigBuilders :
          (Returned(o) /\ IsConfigError(ret)) =>
              \E k \in FieldsRead(o) : args.config[k] = None

C21_Witness ==
    /\ Returned("Configuration")
    /\ DOMAIN args.config_data = {"comment", "data_default_viewers"}
    /\ args.config_data["data_default_viewers"] = <<>>
    /\ ret.ok
    /\ ret.val.data_default_viewers = Some(<<>>)
    /\ ret.val.data_default_owners = None

-----------------------------------------------------------------------------
(* C22 *)

\* C22: with a partition id _build_curves returns one entry per curve, in
\* document order, whose CurveID and Mnemonic are the curve's mnemonic; without
\* a partition id it raises the ConfigError and returns nothing.
C22_BuildCurves ==
    Returned("_build_curves") =>
        IF args.data_partition_id = None
        THEN IsConfigError(ret) /\ ret.msg = MSG_PARTITION
        ELSE /\ ret.ok
             /\ Len(ret.val) = Len(args.las.curves)
             /\ \A i \in 1..Len(args.las.curves) :
                   /\ ret.val[i].CurveID = args.las.curves[i].mnemonic
                   /\ ret.val[i].Mnemonic = args.las.curves[i].mnemonic

C22_Witness ==
    /\ Returned("_build_curves")
    /\ args.data_partition_id # None
    /\ Len(args.las.curves) = 2
    /\ args.las.curves[1].mnemonic # args.las.curves[2].mnemonic
    /\ ret.ok
    /\ ret.val[1].CurveID = args.las.curves[1].mnemonic
    /\ ret.val[2].Mnemonic = args.las.curves[2].mnemonic

-----------------------------------------------------------------------------
(* Sharing of list objects.  The lists of the raw config are objects on    *)
(* the heap; the config mapping, the Configuration and the blocks the      *)
(* builders return hold references to them.  convert runs on a config of   *)
(* references; afterwards the caller changes lists in place through the    *)
(* raw config or through a returned record.                                *)

MaxChanges == 2

ListKeys == {"data_default_viewers", "data_default_owners", "legal_tags",
             "legal_relevant_data_countries"}

\* the address of the list object stored under a key of the raw config
AddrOf(k) ==
    CASE k = "data_default_viewers"          -> 1
      [] k = "data_default_owners"           -> 2
      [] k = "legal_tags"                    -> 3
      [] k = "legal_relevant_data_countries" -> 4

\* raw configs whose list values are references
RefConfigs ==
    {[k \in ks |-> IF k \in ListKeys THEN AddrOf(k)
                   ELSE IF k = "legal_status" THEN "compliant" ELSE "osdu"] :
        ks \in {ConfigKeys, ConfigKeys \ {"data_partition_id"}}}

InitAlias ==
    /\ pc = "idle"
    /\ op = "none"
    /\ args = <<>>
    /\ ret = <<>>
    /\ pinned = <<>>
    /\ calls = <<>>
    /\ mappers = <<>>
    /\ cache = <<>>
    /\ files = {}
    /\ run = <<>>
    /\ \E v \in {<<>>, <<"viewers@osdu">>}, t \in {<<"osdu-public">>, <<"osdu-public", "osdu-us">>} :
          heap = <<v, <<"owners@osdu">>, t, <<"US">>>>

\* a record as its reader sees it: the lists behind its references
Observed(record) ==
    [record EXCEPT
        !.acl   = [viewers |-> heap[record.acl.viewers],
                   owners  |-> heap[record.acl.owners]],
        !.legal = [legaltags                  |-> heap[record.legal.legaltags],
                   otherRelevantDataCountries |-> heap[record.legal.otherRelevantDataCountries],
                   status                     |-> record.legal.status]]

\* convert on a config of references; what the two records show at the return
\* is pinned
AliasConvert ==
    /\ pc = "idle"
    /\ pinned = <<>>
    /\ \E doc \in IdemDocs, wellbore_id \in IdemWellboreIds,
          config_content \in RefConfigs :
        LET r == convert_las_to_osdu_records(LasText(doc), wellbore_id, config_content)
        IN  /\ op' = "convert"
            /\ args' = [las_content |-> LasText(doc), wellbore_id |-> wellbore_id,
                        config_content |-> config_content]
            /\ ret' = r
            /\ pinned' = <<[seen    |-> IF r.ok
                                        THEN [wellbore_record |-> Observed(r.val.wellbore_record),
                                              welllog_record  |-> Observed(r.val.welllog_record)]
                                        ELSE <<>>,
                            changed |-> {},
                            count   |-> 0]>>
    /\ pc' = "returned"
    /\ UNCHANGED <<calls, mappers, heap, cache, files, run>>

\* the list references a record holds
ListsOf(record) ==
    {record.acl.viewers, record.acl.owners,
     record.legal.legaltags, record.legal.otherRelevantDataCountries}

\* the caller appends to a list of one of the returned records
AliasChangeRecord ==
    /\ pc = "returned"
    /\ ret.ok
    /\ Val(pinned).count < MaxChanges
    /\ \E which \in {"wellbore_record", "welllog_record"} :
        \E a \in ListsOf(ret.val[which]) :
            /\ heap' = [heap EXCEPT ![a] = Append(@, "intruder")]
            /\ pinned' = <<[Val(pinned) EXCEPT !.changed = @ \cup {which},
                                               !.count = @ + 1]>>
    /\ UNCHANGED <<pc, op, args, ret, calls, mappers, cache, files, run>>

\* the caller appends to a list of the raw config it passed in
AliasChangeConfig ==
    /\ pc = "returned"
    /\ Val(pinned).count < MaxChanges
    /\ \E k \in ListKeys :
        /\ heap' = [heap EXCEPT ![args.config_content[k]] = Append(@, "intruder")]
        /\ pinned' = <<[Val(pinned) EXCEPT !.changed = @ \cup {"rawConfig"},
                                           !.count = @ + 1]>>
    /\ UNCHANGED <<pc, op, args, ret, calls, mappers, cache, files, run>>

NextAlias ==
    \/ AliasConvert
    \/ AliasChangeRecord
    \/ AliasChangeConfig

SpecAlias == InitAlias /\ [][NextAlias]_vars

-----------------------------------------------------------------------------
(* C23 *)

\* C23: after convert has returned, a record through which no list was changed
\* in place still shows what it showed at the return, whatever was changed
\* through the other record or through the raw config.
C23_RecordsIndependent ==
    (pc = "returned" /\ op = "convert" /\ ret.ok /\ pinned # <<>>) =>
        \A which \in {"wellbore_record", "welllog_record"} :
            which \notin Val(pinned).changed =>
                Observed(ret.val[which]) = Val(pinned).seen[which]

-----------------------------------------------------------------------------
(* tools/las_converter_tool.py.  The tools are synchronous functions of    *)
(* one process, called one at a time by callers A and B; cache is the pair *)
(* (_LAST_READ_CONTENT, _LAST_READ_FILEPATH).  run keeps the last two      *)
(* successful reads, newest last.  Of a returned dict the fields that      *)
(* depend on the text length (size_chars, message) are left out.           *)

TEST_DATA == <<"t", "e", "s", "t", "_", "d", "a", "t", "a">>

\* index of the last "/" of a path, 0 when there is none
LastSlash(p) ==
    LET S == {i \in 1..Len(p) : p[i] = "/"}
    IN  IF S = {} THEN 0 ELSE CHOOSE i \in S : \A j \in S : j <= i

\* os.path.dirname
Dirname(p) == IF LastSlash(p) = 0 THEN <<>> ELSE SubSeq(p, 1, LastSlash(p) - 1)

\* os.path.basename
Basename(p) == SubSeq(p, LastSlash(p) + 1, Len(p))

\* os.path.join
Join(a, b) == a \o <<"/">> \o b

RECURSIVE RemoveAll(_, _)
\* s.replace(sub, ""): every occurrence of sub removed, left to right
RemoveAll(s, sub) ==
    IF Len(s) < Len(sub) THEN s
    ELSE IF SubSeq(s, 1, Len(sub)) = sub
    THEN RemoveAll(SubSeq(s, Len(sub) + 1, Len(s)), sub)
    ELSE <<Head(s)>> \o RemoveAll(Tail(s), sub)

DOT_LAS == <<".", "l", "a", "s">>

DocA ==
    [well |-> [WELL |-> Some(<<"W", "-", "A">>), UWI |-> Some(<<"4", "2">>)],
     curves |-> <<[mnemonic |-> <<"D", "E", "P", "T">>, unit |-> <<"M">>],
                  [mnemonic |-> <<"G", "R">>, unit |-> <<>>]>>]

DocB ==
    [well |-> [WELL |-> Some(<<"W", "-", "B">>), UWI |-> None],
     curves |-> <<[mnemonic |-> <<"G", "R">>, unit |-> <<"K", " ", "M">>]>>]

DocD == [well |-> [WELL |-> None, UWI |-> None], curves |-> <<>>]

\* the LAS files on disk: three in test_data, one elsewhere
DiskFiles ==
    {[path |-> Join(TEST_DATA, <<"a", ".", "l", "a", "s">>), text |-> Val(LasText(DocA))],
     [path |-> Join(TEST_DATA, <<"b", ".", "l", "a", "s">>), text |-> Val(LasText(DocB))],
     [path |-> Join(TEST_DATA, <<"c", ".", "l", "a", "s">>),
      text |-> [kind |-> "bad", exc |-> "LASHeaderError", msg |-> "~V section not found"]],
     [path |-> Join(<<"l", "o", "g", "s">>, <<"d", ".", "l", "a", "s">>),
      text |-> Val(LasText(DocD))]}

\* os.path.exists
Exists(p) == \E f \in DiskFiles : f.path = p

\* open(p).read()
ReadFile(p) == (CHOOSE f \in DiskFiles : f.path = p).text

\* the file_path arguments of read_las_file_tool
FilePaths ==
    {<<"a", ".", "l", "a", "s">>, <<"b", ".", "l", "a", "s">>,
     <<"c", ".", "l", "a", "s">>, <<"x", ".", "l", "a", "s">>,
     Join(<<"l", "o", "g", "s">>, <<"d", ".", "l", "a", "s">>)}

Callers == {"A", "B"}

UNKNOWN == <<"U", "n", "k", "n", "o", "w", "n">>

\* "if not os.path.dirname(file_path): file_path = os.path.join('test_data', file_path)"
ResolvePath(file_path) ==
    IF Dirname(file_path) = <<>> THEN Join(TEST_DATA, file_path) ELSE file_path

\* the summary read_las_file_tool returns once the content is stored
ReadSummary(file_path, content) ==
    LET las_obj == load_las_file(Some(content))
    IN  IF las_obj.ok
        THEN [status      |-> "success",
              file_path   |-> file_path,
              well_name   |-> IF las_obj.val.well.WELL # None
                              THEN Val(las_obj.val.well.WELL) ELSE UNKNOWN,
              curve_count |-> Len(las_obj.val.curves)]
        ELSE [status     |-> "success",
              file_path  |-> file_path,
              parse_note |-> "Quick parse failed: " \o las_obj.msg]

\* Mutant: a file whose quick parse fails is not stored.
StoresPair_parsed_only(file_path) ==
    Exists(ResolvePath(file_path))
        /\ load_las_file(Some(ReadFile(ResolvePath(file_path)))).ok

\* read_las_file_tool stores the pair when the file exists and could be read
StoresPair(file_path) == Exists(ResolvePath(file_path))

read_las_file_tool(file_path) ==
    IF ~Exists(ResolvePath(file_path))
    THEN [status |-> "error", error_message |-> "File not found"]
    ELSE ReadSummary(ResolvePath(file_path), ReadFile(ResolvePath(file_path)))

MSG_NO_CONTENT == "No LAS content provided. Use read_las_file_tool first."

\* a las_content argument that is only whitespace
BlankText == Some([kind |-> "blank", exc |-> "LASHeaderError", msg |-> "No ~ sections found"])

\* Mutant: only an omitted las_content is replaced by the stored content.
ResolveContent_none_only(las_content, cached) ==
    IF las_content = None THEN cached ELSE las_content

\* "if las_content is None or las_content.strip() == '': ... las_content =
\* _LAST_READ_CONTENT"; None when there is no stored content either
ResolveContent(las_content, cached) ==
    IF las_content = None \/ las_content = BlankText THEN cached ELSE las_content

validate_las_file_tool(las_content, cached) ==
    LET content == ResolveContent(las_content, cached)
    IN  IF content = None
        THEN [status |-> "error", error_message |-> MSG_NO_CONTENT]
        ELSE LET las_obj == load_las_file(content)
             IN  IF las_obj.ok
                 THEN [status      |-> "success",
                       is_valid    |-> TRUE,
                       well_name   |-> IF las_obj.val.well.WELL # None
                                       THEN Val(las_obj.val.well.WELL) ELSE UNKNOWN,
                       curve_count |-> Len(las_obj.val.curves)]
                 ELSE [status        |-> "error",
                       is_valid      |-> FALSE,
                       error_message |-> "LAS validation failed: " \o las_obj.msg]

extract_las_metadata_tool(las_content, cached) ==
    LET content == ResolveContent(las_content, cached)
    IN  IF content = None
        THEN [status |-> "error", error_message |-> MSG_NO_CONTENT]
        ELSE LET las_obj == load_las_file(content)
             IN  IF las_obj.ok
                 THEN [status   |-> "success",
                       metadata |->
                          [well_name   |-> IF las_obj.val.well.WELL # None
                                           THEN Val(las_obj.val.well.WELL) ELSE UNKNOWN,
                           uwi         |-> IF las_obj.val.well.UWI # None
                                           THEN Val(las_obj.val.well.UWI) ELSE UNKNOWN,
                           curves      |-> [i \in 1..Len(las_obj.val.curves) |->
                                              las_obj.val.curves[i].mnemonic],
                           curve_count |-> Len(las_obj.val.curves)]]
                 ELSE [status        |-> "error",
                       error_message |-> "Metadata extraction failed: " \o las_obj.msg]

\* the wellbore id convert_las_to_osdu_tool makes up when none is passed
DerivedWellboreId(filepath) ==
    IF filepath # None /\ Truthy(Val(filepath))
    THEN <<"w", "e", "l", "l", "b", "o", "r", "e", "-">>
            \o RemoveAll(Basename(Val(filepath)), DOT_LAS)
    ELSE <<"w", "e", "l", "l", "b", "o", "r", "e", "-", "0", "0", "1">>

\* json.loads of a config text
json_loads(config_json) ==
    IF config_json.kind = "json" THEN Ok(config_json.value)
    ELSE Raise("JSONDecodeError", "Expecting value: line 1 column 1 (char 0)")

\* convert_las_to_osdu_tool; default_config is config/default_config.json, None
\* when it cannot be read
convert_las_to_osdu_tool(las_content, wellbore_id, config_json, cached, default_config) ==
    LET content == ResolveContent(las_content, cached.content)
        wid     == IF wellbore_id = None THEN DerivedWellboreId(cached.filepath)
                   ELSE Val(wellbore_id)
        config  == IF config_json = None THEN default_config ELSE config_json
    IN  IF content = None
        THEN [status |-> "error", error_message |-> MSG_NO_CONTENT]
        ELSE IF config = None
        THEN [status |-> "error", error_message |-> "Could not load default config"]
        ELSE LET config_data == json_loads(Val(config))
             IN  IF ~config_data.ok
                 THEN [status        |-> "error",
                       error_message |-> "Invalid JSON configuration: " \o config_data.msg,
                       error_type    |-> "configuration_error"]
                 ELSE LET records == convert_las_to_osdu_records(content, wid,
                                                                 config_data.val)
                      IN  IF records.ok
                          THEN [status          |-> "success",
                                wellbore_record |-> records.val.wellbore_record,
                                welllog_record  |-> records.val.welllog_record,
                                wellbore_id     |-> wid]
                          ELSE IF records.exc = "FileValidationError"
                          THEN [status        |-> "error",
                                error_message |-> "Validation error: " \o records.msg,
                                error_type    |-> "validation_error"]
                          ELSE [status        |-> "error",
                                error_message |-> "Conversion error: " \o records.msg,
                                error_type    |-> "mapping_error"]

\* the las_content arguments of the tools
ToolContents == {None, BlankText, LasText(DocA)}

ToolWellboreIds == {None, Some(<<"w", "b", "-", "1">>)}

\* config texts: a full config, one without partition id, and a text that is
\* not JSON
ConfigTexts ==
    {[kind |-> "json", value |-> c] : c \in ConcConfigs} \cup {[kind |-> "invalid"]}

DefaultConfig ==
    [kind |-> "json",
     value |-> MkConfig(Some(<<"viewers@osdu">>), Some(<<"owners@osdu">>),
                        Some(<<"osdu-public">>), Some(<<"US">>), Some("compliant"),
                        Some("osdu"))]

InitTools ==
    /\ pc = "idle"
    /\ op = "none"
    /\ args = <<>>
    /\ ret = <<>>
    /\ pinned = <<>>
    /\ calls = <<>>
    /\ mappers = <<>>
    /\ heap = <<>>
    /\ files = {}
    /\ cache = [content |-> None, filepath |-> None]
    /\ run = <<>>

\* the last two successful reads, newest last
Remember(reads, r) == IF reads = <<>> THEN <<r>> ELSE <<reads[Len(reads)], r>>

ToolRead ==
    /\ pc = "idle"
    /\ \E caller \in Callers, file_path \in FilePaths :
        /\ op' = "read_las_file_tool"
        /\ args' = [caller |-> caller, file_path |-> file_path]
        /\ ret' = read_las_file_tool(file_path)
        /\ cache' = IF StoresPair(file_path)
                    THEN [content  |-> Some(ReadFile(ResolvePath(file_path))),
                          filepath |-> Some(ResolvePath(file_path))]
                    ELSE cache
        /\ run' = IF StoresPair(file_path)
                  THEN Remember(run, [caller |-> caller, path |-> ResolvePath(file_path)])
                  ELSE run
    /\ pc' = "returned"
    /\ UNCHANGED <<pinned, calls, mappers, heap, files>>

ToolValidate ==
    /\ pc = "idle"
    /\ \E caller \in Callers, las_content \in ToolContents :
        /\ op' = "validate_las_file_tool"
        /\ args' = [caller |-> caller, las_content |-> las_content]
        /\ ret' = validate_las_file_tool(las_content, cache.content)
    /\ pc' = "returned"
    /\ UNCHANGED <<pinned, calls, mappers, heap, cache, files, run>>

ToolExtract ==
    /\ pc = "idle"
    /\ \E caller \in Callers, las_content \in ToolContents :
        /\ op' = "extract_las_metadata_tool"
        /\ args' = [caller |-> caller, las_content |-> las_content]
        /\ ret' = extract_las_metadata_tool(las_content, cache.content)
    /\ pc' = "returned"
    /\ UNCHANGED <<pinned, calls, mappers, heap, cache, files, run>>

ToolConvert ==
    /\ pc = "idle"
    /\ \E caller \in Callers, las_content \in ToolContents,
          wellbore_id \in ToolWellboreIds,
          config_json \in {None} \cup {Some(c) : c \in ConfigTexts},
          default_config \in {None, Some(DefaultConfig)} :
        /\ op' = "convert_las_to_osdu_tool"
        /\ args' = [caller |-> caller, las_content |-> las_content,
                    wellbore_id |-> wellbore_id, config_json |-> config_json,
                    default_config |-> default_config]
        /\ ret' = convert_las_to_osdu_tool(las_content, wellbore_id, config_json,
                                           cache, default_config)
    /\ pc' = "returned"
    /\ UNCHANGED <<pinned, calls, mappers, heap, cache, files, run>>

NextTools ==
    \/ ToolRead
    \/ ToolValidate
    \/ ToolExtract
    \/ ToolConvert
    \/ Return

SpecTools == InitTools /\ [][NextTools]_vars

-----------------------------------------------------------------------------
(* C24 *)

ContentTools == {"validate_las_file_tool", "extract_las_metadata_tool",
                 "convert_las_to_osdu_tool"}

\* the tool call of the current state, made with the given las_content
SameCallWith(las_content) ==
    CASE op = "validate_las_file_tool" ->
            validate_las_file_tool(las_content, cache.content)
      [] op = "extract_las_metadata_tool" ->
            extract_las_metadata_tool(las_content, cache.content)
      [] op = "convert_las_to_osdu_tool" ->
            convert_las_to_osdu_tool(las_content, args.wellbore_id, args.config_json,
                                     cache, args.default_config)

WithoutContent == args.las_content = None \/ args.las_content = BlankText

\* C24: a validate, extract or convert tool call without content gives what the
\* same call gives on the content of the file of the most recent successful
\* read_las_file_tool call, whichever caller made that call.
C24_UsesLastRead ==
    (pc = "returned" /\ op \in ContentTools /\ WithoutContent /\ run # <<>>) =>
        ret = SameCallWith(Some(ReadFile(run[Len(run)].path)))

C24_Witness ==
    /\ Returned("convert_las_to_osdu_tool")
    /\ args.caller = "A"
    /\ args.las_content = None
    /\ Len(run) = 2
    /\ run[1] = [caller |-> "A", path |-> Join(TEST_DATA, <<"a", ".", "l", "a", "s">>)]
    /\ run[2] = [caller |-> "B", path |-> Join(TEST_DATA, <<"b", ".", "l", "a", "s">>)]
    /\ ret.status = "success"
    /\ ret.wellbore_record.data.FacilityName = <<"W", "-", "B">>

-----------------------------------------------------------------------------
(* C25 *)

\* C25: when convert_las_to_osdu_tool derives the wellbore id, the id is
\* "wellbore-" followed by the name, without ".las", of the file whose content
\* the call converts.
C25_DerivedIdNamesConvertedFile ==
    ( /\ Returned("convert_las_to_osdu_tool")
      /\ args.wellbore_id = None
      /\ ret.status = "success" )
    => \E f \in DiskFiles :
          /\ Some(f.text) = ResolveContent(args.las_content, cache.content)
          /\ ret.wellbore_id = <<"w", "e", "l", "l", "b", "o", "r", "e", "-">>
                                  \o RemoveAll(Basename(f.path), DOT_LAS)

-----------------------------------------------------------------------------
(* C26 *)

\* the stored pair is unset, or the content and the path of one file
PairOfOneFile(c) ==
    \/ c.content = None /\ c.filepath = None
    \/ \E f \in DiskFiles : c = [content |-> Some(f.text), filepath |-> Some(f.path)]

\* C26: the stored pair is always unset or the content and path of one file; a
\* read that returns status "error" leaves it unchanged, a read whose quick
\* parse fails stores the pair of the file read and returns "success", and the
\* validate, extract and convert tools never change it.
C26_CachePair ==
    /\ PairOfOneFile(cache)
    /\ [][ /\ PairOfOneFile(cache')
           /\ (pc' = "returned" /\ op' = "read_las_file_tool") =>
                 /\ ret'.status = "error" => cache' = cache
                 /\ (Exists(ResolvePath(args'.file_path))
                      /\ ~load_las_file(Some(ReadFile(ResolvePath(args'.file_path)))).ok) =>
                        /\ ret'.status = "success"
                        /\ cache' = [content  |-> Some(ReadFile(ResolvePath(args'.file_path))),
                                     filepath |-> Some(ResolvePath(args'.file_path))]
           /\ (pc' = "returned" /\ op' \in ContentTools) => cache' = cache
       ]_vars

C26_Witness ==
    /\ Returned("read_las_file_tool")
    /\ args.file_path = <<"c", ".", "l", "a", "s">>
    /\ ret.status = "success"
    /\ "parse_note" \in DOMAIN ret
    /\ cache.filepath = Some(Join(TEST_DATA, <<"c", ".", "l", "a", "s">>))
    /\ cache.content # None
    /\ Val(cache.content).kind = "bad"

-----------------------------------------------------------------------------
(* lastowellboreAgent.py: process_las_file.  run is the frame of the call, *)
(* files the names of the files on disk.  What the config file, the agent  *)
(* and the file system do is chosen by the environment.                    *)

IngestWellboreIds == {"well-1234", "well-5555"}

WellboreFileName(wellbore_id) == wellbore_id \o "-wellbore.json"

WellLogFileName(wellbore_id) == wellbore_id \o "-welllog.json"

\* the JSON objects an agent reply can carry, by their keys
ReplyObjects ==
    {[k \in ks |-> "record"] : ks \in SUBSET {"wellbore", "welllog"}}

\* final texts of the agent: bare JSON, JSON in a json fence, prose without
\* braces, braces that are no JSON
ReplyTexts ==
    {[kind |-> k, value |-> v] : k \in {"json", "fenced"}, v \in ReplyObjects}
        \cup {[kind |-> "prose"], [kind |-> "broken"]}

\* extract_json_from_text: the object, None when the text has no braces; the
\* json.loads of a matched group raises on broken JSON
extract_json_from_text(text) ==
    CASE text.kind \in {"json", "fenced"} -> Ok(Some(text.value))
      [] text.kind = "prose"              -> Ok(None)
      [] text.kind = "broken"             -> Raise("JSONDecodeError", "Expecting value")

\* "if final_json and 'wellbore' in final_json"
HasWellbore(final_json) ==
    final_json # None /\ DOMAIN Val(final_json) # {} /\ "wellbore" \in DOMAIN Val(final_json)

InitIngest ==
    /\ pc = "idle"
    /\ op = "none"
    /\ args = <<>>
    /\ ret = <<>>
    /\ pinned = <<>>
    /\ calls = <<>>
    /\ mappers = <<>>
    /\ heap = <<>>
    /\ cache = <<>>
    /\ \E wellbore_id \in IngestWellboreIds :
        /\ files \in SUBSET {WellboreFileName(wellbore_id), WellLogFileName(wellbore_id)}
        /\ run = [pc |-> "read_config", wellbore_id |-> wellbore_id,
                  welllog_filename |-> None, final_text |-> None,
                  final_json |-> None, wrote |-> {}, ret |-> None]

\* leave process_las_file returning v
IngestDone(v) == [run EXCEPT !.pc = "done", !.ret = v]

\* 1. read the config file; any exception returns nothing
IngestReadConfig ==
    /\ run.pc = "read_config"
    /\ \E readable \in BOOLEAN :
        run' = IF readable THEN [run EXCEPT !.pc = "run_agent"] ELSE IngestDone(None)
    /\ UNCHANGED <<pc, op, args, ret, pinned, calls, mappers, heap, cache, files>>

\* 4.-5. run the agent and collect its text; an exception goes to the handler
\* of line 186 and on to "return welllog_filename"
IngestRunAgent ==
    /\ run.pc = "run_agent"
    /\ \/ run' = IngestDone(run.welllog_filename)
       \/ run' = IngestDone(None)
       \/ \E text \in ReplyTexts :
            run' = [run EXCEPT !.pc = "parse", !.final_text = Some(text)]
    /\ UNCHANGED <<pc, op, args, ret, pinned, calls, mappers, heap, cache, files>>

\* 6. parse the JSON and choose the file names
IngestParse ==
    /\ run.pc = "parse"
    /\ LET final_json == extract_json_from_text(Val(run.final_text))
       IN  run' = IF ~final_json.ok THEN IngestDone(run.welllog_filename)
                  ELSE IF HasWellbore(final_json.val)
                  THEN [run EXCEPT !.pc = "write_wellbore",
                                   !.final_json = final_json.val,
                                   !.welllog_filename = Some(WellLogFileName(run.wellbore_id))]
                  ELSE [IngestDone(run.welllog_filename) EXCEPT !.final_json = final_json.val]
    /\ UNCHANGED <<pc, op, args, ret, pinned, calls, mappers, heap, cache, files>>

IngestWriteWellbore ==
    /\ run.pc = "write_wellbore"
    /\ \E written \in BOOLEAN :
        IF written
        THEN /\ files' = files \cup {WellboreFileName(run.wellbore_id)}
             /\ run' = IF "welllog" \in DOMAIN Val(run.final_json)
                       THEN [run EXCEPT !.pc = "write_welllog",
                                        !.wrote = @ \cup {WellboreFileName(run.wellbore_id)}]
                       ELSE [IngestDone(run.welllog_filename) EXCEPT
                                !.wrote = @ \cup {WellboreFileName(run.wellbore_id)}]
        ELSE /\ files' = files
             /\ run' = IngestDone(run.welllog_filename)
    /\ UNCHANGED <<pc, op, args, ret, pinned, calls, mappers, heap, cache>>

IngestWriteWellLog ==
    /\ run.pc = "write_welllog"
    /\ \E written \in BOOLEAN :
        IF written
        THEN /\ files' = files \cup {WellLogFileName(run.wellbore_id)}
             /\ run' = [IngestDone(run.welllog_filename) EXCEPT
                           !.wrote = @ \cup {WellLogFileName(run.wellbore_id)}]
        ELSE /\ files' = files
             /\ run' = IngestDone(run.welllog_filename)
    /\ UNCHANGED <<pc, op, args, ret, pinned, calls, mappers, heap, cache>>

NextIngest ==
    \/ IngestReadConfig
    \/ IngestRunAgent
    \/ IngestParse
    \/ IngestWriteWellbore
    \/ IngestWriteWellLog

SpecIngest == InitIngest /\ [][NextIngest]_vars

-----------------------------------------------------------------------------
(* C27 *)

\* C27: process_las_file returns a well-log file name only if this call wrote
\* the well-log file under that name; otherwise it returns nothing.
C27_NameOnlyIfWritten ==
    (run.pc = "done" /\ run.ret # None) =>
        /\ Val(run.ret) = WellLogFileName(run.wellbore_id)
        /\ Val(run.ret) \in run.wrote

-----------------------------------------------------------------------------
(* mergeAgent.py: main.  run is the frame of the call: attempt is the loop *)
(* variable, log the outcome of every attempt made so far, writes the      *)
(* number of times merged_output.json was written.  What the files and the *)
(* agent give is chosen by the environment.                                *)

MAX_JSON_RETRIES == 3

MERGED_OUTPUT == "merged_output.json"

\* Mutant: range(1, MAX_JSON_RETRIES + 2).
MergeInRange_one_more(attempt) == attempt <= MAX_JSON_RETRIES + 1

\* "for attempt in range(1, MAX_JSON_RETRIES + 1)"
MergeInRange(attempt) == attempt <= MAX_JSON_RETRIES

\* raw texts of the agent: JSON, JSON in a fence, text that is no JSON
MergeTexts == {[kind |-> "json"], [kind |-> "fenced"], [kind |-> "invalid"]}

\* json.loads(clean_json_text(raw_text))
MergeParses(text) == text.kind \in {"json", "fenced"}

InitMerge ==
    /\ pc = "idle"
    /\ op = "none"
    /\ args = <<>>
    /\ ret = <<>>
    /\ pinned = <<>>
    /\ calls = <<>>
    /\ mappers = <<>>
    /\ heap = <<>>
    /\ cache = <<>>
    /\ files = {}
    /\ run = [pc |-> "load_prompt", attempt |-> 0, log |-> <<>>, raw_text |-> None,
              writes |-> 0]

\* "continue": the attempt is logged and the loop takes the next value
MergeContinue(outcome) ==
    [run EXCEPT !.pc = "for", !.attempt = @ + 1, !.log = Append(@, outcome),
                !.raw_text = None]

MergeLoadPrompt ==
    /\ run.pc = "load_prompt"
    /\ \E found \in BOOLEAN :
        run' = [run EXCEPT !.pc = IF found THEN "load_inputs" ELSE "done"]
    /\ UNCHANGED <<pc, op, args, ret, pinned, calls, mappers, heap, cache, files>>

\* master and child are read; a missing or empty file ends the run
MergeLoadInputs ==
    /\ run.pc = "load_inputs"
    /\ \E inputs \in {"ok", "empty", "missing"} :
        run' = IF inputs = "ok" THEN [run EXCEPT !.pc = "for", !.attempt = 1]
               ELSE [run EXCEPT !.pc = "done"]
    /\ UNCHANGED <<pc, op, args, ret, pinned, calls, mappers, heap, cache, files>>

\* the head of the for loop
MergeFor ==
    /\ run.pc = "for"
    /\ run' = [run EXCEPT !.pc = IF MergeInRange(run.attempt) THEN "run_agent" ELSE "done"]
    /\ UNCHANGED <<pc, op, args, ret, pinned, calls, mappers, heap, cache, files>>

\* runner.run_async: an exception, an empty text, or a text
MergeRunAgent ==
    /\ run.pc = "run_agent"
    /\ \/ run' = MergeContinue("exception")
       \/ run' = MergeContinue("empty")
       \/ \E text \in MergeTexts :
            run' = [run EXCEPT !.pc = "parse", !.raw_text = Some(text)]
    /\ UNCHANGED <<pc, op, args, ret, pinned, calls, mappers, heap, cache, files>>

MergeParse ==
    /\ run.pc = "parse"
    /\ run' = IF MergeParses(Val(run.raw_text)) THEN [run EXCEPT !.pc = "write"]
              ELSE MergeContinue("decode_error")
    /\ UNCHANGED <<pc, op, args, ret, pinned, calls, mappers, heap, cache, files>>

\* the output file is written and main returns, or opening it raises
MergeWrite ==
    /\ run.pc = "write"
    /\ \E written \in BOOLEAN :
        IF written
        THEN /\ files' = files \cup {MERGED_OUTPUT}
             /\ run' = [run EXCEPT !.pc = "done", !.log = Append(@, "saved"),
                                   !.writes = @ + 1]
        ELSE /\ files' = files
             /\ run' = MergeContinue("exception")
    /\ UNCHANGED <<pc, op, args, ret, pinned, calls, mappers, heap, cache>>

NextMerge ==
    \/ MergeLoadPrompt
    \/ MergeLoadInputs
    \/ MergeFor
    \/ MergeRunAgent
    \/ MergeParse
    \/ MergeWrite

SpecMerge == InitMerge /\ [][NextMerge]_vars /\ WF_vars(NextMerge)

-----------------------------------------------------------------------------
(* C28 *)

\* the attempts logged before the last one
EarlierAttempts == 1..(Len(run.log) - 1)

\* C28: mergeAgent.main ends after at most MAX_JSON_RETRIES attempts; an empty
\* response, a decode error and any other exception each use up one attempt and
\* lead to the next; merged_output.json is written at most once, from a response
\* that parsed, and no attempt follows the write.
C28_MergeBounded ==
    /\ <>(run.pc = "done")
    /\ [](/\ Len(run.log) <= MAX_JSON_RETRIES
          /\ run.writes <= 1
          /\ \A i \in EarlierAttempts : run.log[i] # "saved"
          /\ (run.writes = 1) <=>
                (run.log # <<>> /\ run.log[Len(run.log)] = "saved")
          /\ (run.writes = 1) =>
                /\ run.pc = "done"
                /\ run.raw_text # None
                /\ MergeParses(Val(run.raw_text))
          /\ (run.pc = "done" /\ run.attempt > 0 /\ run.writes = 0) =>
                Len(run.log) = MAX_JSON_RETRIES)

C28_Witness ==
    /\ run.pc = "done"
    /\ run.log = <<"empty", "decode_error", "exception">>
    /\ run.writes = 0
    /\ MERGED_OUTPUT \notin files

-----------------------------------------------------------------------------
(* searchAgent.py: main.  The frame is as for the merge agent.             *)

SEARCH_MAX_JSON_RETRIES == 3

CHILD_LOGS == "childLogs.json"

\* raw texts of the final event: the text of its first part (JSON, JSON in a
\* fence, or no JSON), the dumped arguments of a function call, or str(event)
SearchTexts ==
    {[source |-> "text", kind |-> k] : k \in {"json", "fenced", "invalid"}}
        \cup {[source |-> "function_call", kind |-> "json"],
              [source |-> "event", kind |-> "invalid"]}

SearchInputPaths == {"well-1234-welllog.json", "well-5555-welllog.json"}

\* json.loads(clean_json_text(raw_text))
SearchParses(text) == text.kind \in {"json", "fenced"}

InitSearch ==
    /\ pc = "idle"
    /\ op = "none"
    /\ args = <<>>
    /\ ret = <<>>
    /\ pinned = <<>>
    /\ calls = <<>>
    /\ mappers = <<>>
    /\ heap = <<>>
    /\ cache = <<>>
    /\ files \in SUBSET SearchInputPaths
    /\ \E input_file_path \in SearchInputPaths :
        run = [pc |-> "load_prompt", input_file_path |-> input_file_path,
               attempt |-> 0, log |-> <<>>, raw_text |-> None, writes |-> 0]

\* "except json.JSONDecodeError: ... continue"
SearchContinue(outcome) ==
    [run EXCEPT !.pc = "for", !.attempt = @ + 1, !.log = Append(@, outcome),
                !.raw_text = None]

\* Mutant: the handler of the other exceptions continues with the next attempt.
SearchReturn_continue(outcome) == SearchContinue(outcome)

\* "except Exception: ... return"
SearchReturn(outcome) ==
    [run EXCEPT !.pc = "done", !.log = Append(@, outcome)]

SearchLoadPrompt ==
    /\ run.pc = "load_prompt"
    /\ \E found \in BOOLEAN :
        run' = [run EXCEPT !.pc = IF found THEN "load_input" ELSE "done"]
    /\ UNCHANGED <<pc, op, args, ret, pinned, calls, mappers, heap, cache, files>>

\* the input file, the well-log file of an ingest step, is read
SearchLoadInput ==
    /\ run.pc = "load_input"
    /\ run' = IF run.input_file_path \in files
              THEN [run EXCEPT !.pc = "for", !.attempt = 1]
              ELSE [run EXCEPT !.pc = "done"]
    /\ UNCHANGED <<pc, op, args, ret, pinned, calls, mappers, heap, cache, files>>

SearchFor ==
    /\ run.pc = "for"
    /\ run' = [run EXCEPT !.pc = IF run.attempt <= SEARCH_MAX_JSON_RETRIES
                                 THEN "run_agent" ELSE "done"]
    /\ UNCHANGED <<pc, op, args, ret, pinned, calls, mappers, heap, cache, files>>

\* runner.run_debug and the extraction of the final text: an exception, or a text
SearchRunAgent ==
    /\ run.pc = "run_agent"
    /\ \/ run' = SearchReturn("exception")
       \/ \E text \in SearchTexts :
            run' = [run EXCEPT !.pc = "parse", !.raw_text = Some(text)]
    /\ UNCHANGED <<pc, op, args, ret, pinned, calls, mappers, heap, cache, files>>

SearchParse ==
    /\ run.pc = "parse"
    /\ run' = IF SearchParses(Val(run.raw_text)) THEN [run EXCEPT !.pc = "write"]
              ELSE SearchContinue("decode_error")
    /\ UNCHANGED <<pc, op, args, ret, pinned, calls, mappers, heap, cache, files>>

SearchWrite ==
    /\ run.pc = "write"
    /\ \E written \in BOOLEAN :
        IF written
        THEN /\ files' = files \cup {CHILD_LOGS}
             /\ run' = [run EXCEPT !.pc = "done", !.log = Append(@, "saved"),
                                   !.writes = @ + 1]
        ELSE /\ files' = files
             /\ run' = SearchReturn("exception")
    /\ UNCHANGED <<pc, op, args, ret, pinned, calls, mappers, heap, cache>>

NextSearch ==
    \/ SearchLoadPrompt
    \/ SearchLoadInput
    \/ SearchFor
    \/ SearchRunAgent
    \/ SearchParse
    \/ SearchWrite

SpecSearch == InitSearch /\ [][NextSearch]_vars

-----------------------------------------------------------------------------
(* C29 *)

\* C29: searchAgent.main makes a further attempt only after a JSON decode
\* error, never more than 3 attempts; any other exception ends the run at once;
\* childLogs.json is written at most once and only from a response that parsed.
C29_SearchRetriesOnlyDecodeErrors ==
    /\ Len(run.log) <= SEARCH_MAX_JSON_RETRIES
    /\ \A i \in 1..(Len(run.log) - 1) : run.log[i] = "decode_error"
    /\ (run.log # <<>> /\ run.log[Len(run.log)] = "exception") => run.pc = "done"
    /\ run.writes <= 1
    /\ (run.writes = 1) <=> (run.log # <<>> /\ run.log[Len(run.log)] = "saved")
    /\ (run.writes = 1) =>
          /\ run.pc = "done"
          /\ run.raw_text # None
          /\ SearchParses(Val(run.raw_text))
    /\ (CHILD_LOGS \in files) => run.writes = 1

C29_Witness ==
    /\ run.pc = "done"
    /\ run.log = <<"decode_error", "exception">>
    /\ CHILD_LOGS \notin files

-----------------------------------------------------------------------------
(* C30 *)

\* C30: run_assembly_line runs ingest first; when ingest returns a non-empty
\* path it runs search and, once search has returned, merge, in this order;
\* when ingest returns nothing it runs neither; an exception of the merge step
\* does not escape.
C30_StepsInOrder ==
    Returned("run_assembly_line") =>
        /\ ret.steps # <<>>
        /\ ret.steps[1] = "ingest"
        /\ (args.ingest = None) => (ret.steps = <<"ingest">> /\ ret.outcome.ok)
        /\ (args.ingest # None /\ args.search \in {"saved", "not_saved"}) =>
              /\ ret.steps = <<"ingest", "search", "merge">>
              /\ ret.outcome.ok

====
